---- MODULE Spec2Model ----
(***************************************************************************)
(* Event-driven backtester: DataHandler, MarketRules, ExecutionHandler,    *)
(* registry-based Portfolio, the engine loop and the DataLoader cache.     *)
(*                                                                         *)
(* Numbers.  Prices, cash, commissions and costs are Python floats in the  *)
(* source; they are modelled as exact rationals <<n, d>> (d > 0, lowest    *)
(* terms), so every formula below is about the arithmetic the code writes, *)
(* not about binary rounding.  Quantities are integers.  Datetimes are     *)
(* integer minutes counted from Monday 00:00 of the first week, local to   *)
(* the market.                                                             *)
(***************************************************************************)
EXTENDS Integers, Sequences, FiniteSets, TLC

VARIABLES
    symbols_data,         \* DataHandler._symbols_data: symbol -> sequence of bars
    latest_symbols_data,  \* DataHandler._latest_symbols_data
    bar_index,            \* DataHandler._bar_index
    registry,             \* InstrumentRegistry.instrument_map: symbol -> instrument
    pending_orders,       \* ExecutionHandler.pending_orders
    event_queue,          \* engine: event_queue
    portfolio,            \* the Portfolio object's fields
    fill_on_next_bar,     \* ExecutionHandler.fill_on_next_bar
    pc,                   \* engine position: "advance", "drain", "done", "crashed"
    call,                 \* the last operation performed and what it returned
    db                    \* DataLoader: the rows of table historical_data

vars == <<symbols_data, latest_symbols_data, bar_index, registry, pending_orders,
          event_queue, portfolio, fill_on_next_bar, pc, call, db>>

----------------------------------------------------------------------------
(* Exact rational arithmetic *)

Abs(x) == IF x < 0 THEN -x ELSE x

RECURSIVE GCD(_, _)
GCD(a, b) == IF b = 0 THEN a ELSE GCD(b, a % b)

RNorm(n, d) ==
    LET s == IF d < 0 THEN -1 ELSE 1
        g == GCD(Abs(n), Abs(d))
    IN  IF n = 0 THEN <<0, 1>> ELSE <<(s * n) \div g, (s * d) \div g>>

R(n) == <<n, 1>>
Zero == R(0)
RNeg(a) == <<-a[1], a[2]>>
\* Sums and products cancel common factors first, to keep the integers small.
RAdd(a, b) ==
    LET g == GCD(a[2], b[2])
    IN  RNorm(a[1] * (b[2] \div g) + b[1] * (a[2] \div g), (a[2] \div g) * b[2])
RSub(a, b) == RAdd(a, RNeg(b))
RMul(a, b) ==
    LET g1 == GCD(Abs(a[1]), b[2])
        g2 == GCD(Abs(b[1]), a[2])
    IN  IF a[1] = 0 \/ b[1] = 0 THEN <<0, 1>>
        ELSE RNorm((a[1] \div g1) * (b[1] \div g2), (a[2] \div g2) * (b[2] \div g1))
RInv(a) == IF a[1] < 0 THEN <<-a[2], -a[1]>> ELSE <<a[2], a[1]>>
RDiv(a, b) == RMul(a, RInv(b))
RLt(a, b) == RSub(a, b)[1] < 0
RLe(a, b) == RSub(a, b)[1] <= 0
RMax(a, b) == IF RLt(a, b) THEN b ELSE a
RMin(a, b) == IF RLt(b, a) THEN b ELSE a
RAbs(a) == <<Abs(a[1]), a[2]>>

\* Python's round(): to the nearest integer, ties to the even one.
PyRound(a) ==
    LET fl == a[1] \div a[2]
        twice == 2 * (a[1] - fl * a[2])      \* 2 * fractional part * a[2]
    IN  IF twice < a[2] THEN fl
        ELSE IF twice > a[2] THEN fl + 1
        ELSE IF fl % 2 = 0 THEN fl ELSE fl + 1

\* Integer square root (floor), by bisection.
RECURSIVE ISqrtBetween(_, _, _)
ISqrtBetween(n, lo, hi) ==
    IF lo >= hi THEN lo
    ELSE LET mid == (lo + hi + 1) \div 2
         IN  IF mid * mid <= n THEN ISqrtBetween(n, mid, hi)
             ELSE ISqrtBetween(n, lo, mid - 1)

ISqrt(n) == ISqrtBetween(n, 0, IF n < 46340 THEN n ELSE 46340)

\* math.sqrt of a rational: exact on perfect squares, otherwise the floor at a
\* precision of 1/(1000 * denominator).
RSqrt(a) == RNorm(ISqrt(a[1] * a[2] * 1000 * 1000), a[2] * 1000)

----------------------------------------------------------------------------
(* Market rules (market_rules.py) *)

MinutesPerDay == 24 * 60

\* MarketRules.__init__: the defaults every rule starts from.
MarketRules ==
    [market_name |-> "GENERIC", commission_rate |-> Zero, min_commission |-> Zero,
     stamp_duty |-> Zero, transfer_fee |-> Zero, trading_fee |-> Zero,
     lot_size |-> 1, price_tick |-> <<1, 100>>, allow_short |-> TRUE,
     settlement_days |-> 0, slippage_model |-> "volume_based",
     fixed_slippage_bps |-> 0, volume_slippage_factor |-> <<1, 10>>,
     sessions |-> {}, always_open |-> FALSE,
     requires_daily_settlement |-> FALSE, margin_rate |-> R(1)]

ChinaAShareRules ==
    [MarketRules EXCEPT
     !.market_name = "CHINA_A", !.commission_rate = <<3, 10000>>,
     !.min_commission = R(5), !.stamp_duty = <<1, 1000>>,
     !.transfer_fee = <<1, 50000>>, !.lot_size = 100, !.allow_short = FALSE,
     !.settlement_days = 1, !.volume_slippage_factor = <<15, 100>>,
     !.sessions = {<<9 * 60 + 30, 11 * 60 + 30>>, <<13 * 60, 15 * 60>>}]

USStockRules ==
    [MarketRules EXCEPT
     !.market_name = "US_STOCK", !.settlement_days = 2,
     !.volume_slippage_factor = <<5, 100>>,
     !.sessions = {<<9 * 60 + 30, 16 * 60>>}]

HKStockRules ==
    [MarketRules EXCEPT
     !.market_name = "HK_STOCK", !.commission_rate = <<25, 10000>>,
     !.min_commission = R(100), !.stamp_duty = <<13, 10000>>,
     !.transfer_fee = <<1, 50000>>, !.trading_fee = <<1, 20000>>,
     !.lot_size = 100, !.settlement_days = 2,
     !.sessions = {<<9 * 60 + 30, 12 * 60>>, <<13 * 60, 16 * 60>>}]

CryptoRules ==
    [MarketRules EXCEPT
     !.market_name = "CRYPTO", !.commission_rate = <<1, 1000>>,
     !.volume_slippage_factor = <<20, 100>>, !.always_open = TRUE]

\* The rule of a daily-settled futures market: the base defaults, marked to
\* market daily, margin a tenth of the notional.
FuturesRules ==
    [MarketRules EXCEPT
     !.market_name = "FUTURES", !.always_open = TRUE,
     !.requires_daily_settlement = TRUE, !.margin_rate = <<1, 10>>]

\* MarketRulesFactory._rules_map
create_rules(market_type) ==
    CASE market_type = "china_a" -> ChinaAShareRules
      [] market_type = "us_stock" -> USStockRules
      [] market_type = "hk_stock" -> HKStockRules
      [] market_type = "crypto" -> CryptoRules
      [] market_type = "stock" -> USStockRules

\* str.startswith on the symbols the model uses.
StartsWith(symbol, prefix) ==
    <<symbol, prefix>> \in {<<"300750", "300">>, <<"688001", "688">>,
                            <<"ST0001", "ST">>}

is_trading_time(rule, dt) ==
    LET weekday == (dt \div MinutesPerDay) % 7
        t == dt % MinutesPerDay
    IN  IF rule.always_open THEN TRUE
        ELSE IF weekday >= 5 THEN FALSE
        ELSE \E s \in rule.sessions : s[1] <= t /\ t <= s[2]

\* validate_order of each rule class: [ok, msg]
validate_order(rule, symbol, quantity, price, direction, current_time) ==
    CASE rule.market_name = "CHINA_A" ->
            IF direction = "SELL" /\ ~rule.allow_short THEN [ok |-> TRUE, msg |-> ""]
            ELSE IF quantity % rule.lot_size # 0
                 THEN [ok |-> FALSE, msg |-> "lot size"]
            ELSE IF ~is_trading_time(rule, current_time)
                 THEN [ok |-> FALSE, msg |-> "Outside trading hours"]
            ELSE [ok |-> TRUE, msg |-> ""]
      [] rule.market_name = "US_STOCK" ->
            IF ~is_trading_time(rule, current_time)
            THEN [ok |-> FALSE, msg |-> "Outside trading hours"]
            ELSE [ok |-> TRUE, msg |-> ""]
      [] rule.market_name = "HK_STOCK" ->
            IF quantity % rule.lot_size # 0
            THEN [ok |-> FALSE, msg |-> "lot size"]
            ELSE IF ~is_trading_time(rule, current_time)
                 THEN [ok |-> FALSE, msg |-> "Outside trading hours"]
            ELSE [ok |-> TRUE, msg |-> ""]
      [] OTHER -> [ok |-> TRUE, msg |-> ""]

limit_pct(symbol) ==
    IF StartsWith(symbol, "ST") \/ StartsWith(symbol, "*ST") THEN <<5, 100>>
    ELSE IF StartsWith(symbol, "688") \/ StartsWith(symbol, "300") THEN <<20, 100>>
    ELSE <<10, 100>>

apply_price_limit(rule, symbol, price, prev_close, direction) ==
    IF rule.market_name # "CHINA_A" THEN price
    ELSE IF RLe(prev_close, Zero) THEN price
    ELSE LET max_price == RMul(prev_close, RAdd(R(1), limit_pct(symbol)))
             min_price == RMul(prev_close, RSub(R(1), limit_pct(symbol)))
         IN  RMax(min_price, RMin(max_price, price))

\* A normalisation that leaves odd lots as they are.
normalize_quantity_unrounded(rule, quantity) == quantity

normalize_quantity(rule, quantity) == (quantity \div rule.lot_size) * rule.lot_size

normalize_price(rule, price) ==
    RMul(R(PyRound(RDiv(price, rule.price_tick))), rule.price_tick)

slippage_pct(rule, quantity, price, bar_volume, bar_high, bar_low) ==
    LET spread_pct == IF RLt(Zero, price)
                      THEN RDiv(RSub(bar_high, bar_low), price) ELSE Zero
    IN  CASE rule.slippage_model = "fixed" -> <<rule.fixed_slippage_bps, 10000>>
          [] rule.slippage_model = "volume_based" ->
                IF bar_volume <= 0 THEN <<1, 1000>>
                ELSE RMin(RMul(RMul(rule.volume_slippage_factor,
                                    RSqrt(RNorm(quantity, bar_volume))),
                               spread_pct),
                          <<1, 100>>)
          [] rule.slippage_model = "spread_based" -> RMul(spread_pct, <<1, 2>>)
          [] OTHER -> Zero

calculate_slippage(rule, symbol, quantity, price, direction, bar_volume, bar_high, bar_low) ==
    LET pct == slippage_pct(rule, quantity, price, bar_volume, bar_high, bar_low)
    IN  IF rule.slippage_model \notin {"fixed", "volume_based", "spread_based"}
        THEN price
        ELSE IF direction = "BUY" THEN RMul(price, RAdd(R(1), pct))
        ELSE RMul(price, RSub(R(1), pct))

calculate_commission(rule, symbol, quantity, price, direction) ==
    LET trade_value == RMul(R(quantity), price)
        commission == IF rule.market_name = "CRYPTO"
                      THEN RMul(trade_value, rule.commission_rate)
                      ELSE RMax(RMul(trade_value, rule.commission_rate),
                                rule.min_commission)
        stamp_duty == IF rule.market_name = "CHINA_A" /\ direction # "SELL"
                      THEN Zero ELSE RMul(trade_value, rule.stamp_duty)
        transfer_fee == RMul(trade_value, rule.transfer_fee)
        trading_fee == RMul(trade_value, rule.trading_fee)
    IN  RAdd(RAdd(commission, stamp_duty), RAdd(transfer_fee, trading_fee))

----------------------------------------------------------------------------
(* Instruments and the registry (core/instrument.py, instruments/) *)

\* Python's None, for an absent bar, event or field.
None == [none |-> TRUE]

Stock(symbol, market_rule) ==
    [kind |-> "Stock", symbol |-> symbol, market_rule |-> market_rule,
     contract_multiplier |-> 1, expiry_date |-> 0]

Future(symbol, market_rule, contract_multiplier, expiry_date) ==
    [kind |-> "Future", symbol |-> symbol, market_rule |-> market_rule,
     contract_multiplier |-> contract_multiplier, expiry_date |-> expiry_date]

is_expired(instrument, current_time) ==
    IF instrument.kind = "Future" THEN current_time >= instrument.expiry_date
    ELSE FALSE

\* InstrumentRegistry.get
registry_get(symbol) ==
    IF symbol \notin DOMAIN registry THEN None ELSE registry[symbol]

\* MarketRule.calculate_margin: the notional for cash equities, and
\* notional * multiplier * margin_rate for futures.
calculate_margin(symbol, quantity, price) ==
    LET inst == registry_get(symbol)
        notional == RMul(R(quantity), price)
    IN  IF inst.kind = "Future"
        THEN RMul(RMul(notional, R(inst.contract_multiplier)),
                  inst.market_rule.margin_rate)
        ELSE notional

----------------------------------------------------------------------------
(* DataHandler (data_handler.py) *)

Symbols == <<"600519", "300750">>
SymbolSet == {Symbols[i] : i \in 1..Len(Symbols)}

RECURSIVE update_bars_from_first(_, _)
\* The loop leaving at the first symbol that has a bar.
update_bars_from_first(k, acc) ==
    IF k > Len(Symbols) THEN acc
    ELSE LET symbol == Symbols[k]
         IN  IF Len(symbols_data[symbol]) > bar_index
             THEN [has_data |-> TRUE,
                   latest |-> [acc.latest EXCEPT ![symbol] =
                                 Append(@, symbols_data[symbol][bar_index + 1])]]
             ELSE update_bars_from_first(k + 1, acc)

RECURSIVE update_bars_from(_, _)
\* The loop of update_bars over symbols k..: [has_data, latest]
update_bars_from(k, acc) ==
    IF k > Len(Symbols) THEN acc
    ELSE LET symbol == Symbols[k]
         IN  IF Len(symbols_data[symbol]) > bar_index
             THEN update_bars_from(k + 1,
                    [has_data |-> TRUE,
                     latest |-> [acc.latest EXCEPT ![symbol] =
                                   Append(@, symbols_data[symbol][bar_index + 1])]])
             ELSE update_bars_from(k + 1, acc)

\* update_bars: [has_data, latest, bar_index] after the call
update_bars ==
    LET r == update_bars_from(1, [has_data |-> FALSE, latest |-> latest_symbols_data])
    IN  [has_data |-> r.has_data, latest |-> r.latest,
         bar_index |-> IF r.has_data THEN bar_index + 1 ELSE bar_index]

\* get_latest_bar, on the handler's state (latest, index)
get_latest_bar_in(latest, index, symbol) ==
    IF symbol \notin DOMAIN latest THEN None
    ELSE IF Len(latest[symbol]) = 0 THEN None
    ELSE IF Len(latest[symbol]) = index THEN latest[symbol][Len(latest[symbol])]
    ELSE None

\* get_latest_bars, on the handler's state (latest, index)
get_latest_bars_in(latest, index, symbol, num_bars) ==
    IF symbol \notin DOMAIN latest THEN << >>
    ELSE IF Len(latest[symbol]) < num_bars THEN << >>
    ELSE IF Len(latest[symbol]) = index
         THEN \* the slice [-num_bars:], which is the whole list for num_bars = 0
              SubSeq(latest[symbol],
                     IF num_bars = 0 THEN 1 ELSE Len(latest[symbol]) - num_bars + 1,
                     Len(latest[symbol]))
    ELSE << >>

get_latest_bar(symbol) == get_latest_bar_in(latest_symbols_data, bar_index, symbol)
get_latest_bars(symbol, num_bars) ==
    get_latest_bars_in(latest_symbols_data, bar_index, symbol, num_bars)

----------------------------------------------------------------------------
(* ExecutionHandler (execution/execution_handler.py) *)

OrderEvent(symbol, quantity, direction, datetime) ==
    [type |-> "ORDER", symbol |-> symbol, quantity |-> quantity,
     direction |-> direction, datetime |-> datetime]

\* base_price is not a field of the source's FillEvent: it records the value
\* fill_price had at line 56, before any adjustment.
FillEvent(symbol, exchange, quantity, direction, fill_price, datetime, rejected, commission, base_price) ==
    [type |-> "FILL", symbol |-> symbol, exchange |-> exchange,
     quantity |-> quantity, direction |-> direction, fill_price |-> fill_price,
     datetime |-> datetime, rejected |-> rejected, commission |-> commission,
     base_price |-> base_price]

\* A handler that prices the order from the bar before the latest one.
execution_bar_previous(latest, index, symbol) ==
    IF symbol \in DOMAIN latest /\ Len(latest[symbol]) >= 2
    THEN latest[symbol][Len(latest[symbol]) - 1]
    ELSE get_latest_bar_in(latest, index, symbol)

\* The bar whose open prices the order: the latest visible bar of the symbol.
execution_bar(latest, index, symbol) == get_latest_bar_in(latest, index, symbol)

\* _execute_order with the validation moved behind the price adjustments: a
\* rejected Fill carries the adjusted price and the commission.
execute_order_validating_late(latest, index, order_event) ==
    LET symbol == order_event.symbol
        quantity == order_event.quantity
        direction == order_event.direction
        latest_bar == execution_bar(latest, index, symbol)
    IN  IF latest_bar = None THEN None
        ELSE
        LET base == latest_bar.open
            market_rule == registry_get(symbol).market_rule
            prev_bar == get_latest_bars_in(latest, index, symbol, 2)
            prev_close == IF Len(prev_bar) >= 2 THEN prev_bar[Len(prev_bar) - 1].close
                          ELSE base
            limited == normalize_price(market_rule,
                          apply_price_limit(market_rule, symbol, base, prev_close,
                                            direction))
            slipped == normalize_price(market_rule,
                          calculate_slippage(market_rule, symbol, quantity, limited,
                                             direction, latest_bar.volume,
                                             latest_bar.high, latest_bar.low))
            valid == validate_order(market_rule, symbol, quantity, slipped, direction,
                                    order_event.datetime)
        IN  FillEvent(symbol, market_rule.market_name, quantity, direction, slipped,
                      order_event.datetime, ~valid.ok,
                      calculate_commission(market_rule, symbol, quantity, slipped,
                                           direction),
                      base)

\* _execute_order with the rejection decided by a draw, as in line 118: here
\* the draw falls below the rejection rate after every odd number of signals.
execute_order_drawing(latest, index, order_event) ==
    LET fill_event == execute_order_validating_late(latest, index, order_event)
    IN  IF execution_bar(latest, index, order_event.symbol) = None THEN None
        ELSE [fill_event EXCEPT !.rejected = (call.n % 2 = 1)]

\* _execute_order on the data handler's state (latest, index): a Fill or None
execute_order(latest, index, order_event) ==
    LET symbol == order_event.symbol
        quantity == order_event.quantity
        direction == order_event.direction
        datetime == order_event.datetime
        latest_bar == execution_bar(latest, index, symbol)
    IN  IF latest_bar = None THEN None
        ELSE
        LET base == latest_bar.open
            market_rule == registry_get(symbol).market_rule
            valid == validate_order(market_rule, symbol, quantity, base, direction,
                                    datetime)
            prev_bar == get_latest_bars_in(latest, index, symbol, 2)
            prev_close == IF Len(prev_bar) >= 2 THEN prev_bar[Len(prev_bar) - 1].close
                          ELSE base
            limited == normalize_price(market_rule,
                          apply_price_limit(market_rule, symbol, base, prev_close,
                                            direction))
            slipped == normalize_price(market_rule,
                          calculate_slippage(market_rule, symbol, quantity, limited,
                                             direction, latest_bar.volume,
                                             latest_bar.high, latest_bar.low))
            commission == calculate_commission(market_rule, symbol, quantity,
                                               slipped, direction)
        IN  IF ~valid.ok
            THEN FillEvent(symbol, market_rule.market_name, quantity, direction,
                           base, datetime, TRUE, Zero, base)
            ELSE FillEvent(symbol, market_rule.market_name, quantity, direction,
                           slipped, datetime, FALSE, commission, base)

RECURSIVE execute_all_newest_first(_, _, _)
\* The loop of process_pending_orders run over the queue from its newest order.
execute_all_newest_first(latest, index, orders) ==
    IF orders = << >> THEN << >>
    ELSE LET fill_event == execute_order(latest, index, orders[Len(orders)])
             rest == execute_all_newest_first(latest, index,
                                              SubSeq(orders, 1, Len(orders) - 1))
         IN  IF fill_event # None THEN <<fill_event>> \o rest ELSE rest

RECURSIVE execute_all(_, _, _)
\* The loop of process_pending_orders: the Fills of the orders, in order.
execute_all(latest, index, orders) ==
    IF orders = << >> THEN << >>
    ELSE LET fill_event == execute_order(latest, index, Head(orders))
             rest == execute_all(latest, index, Tail(orders))
         IN  IF fill_event # None THEN <<fill_event>> \o rest ELSE rest

\* process_pending_orders: [fill_events, pending_orders] after the call
process_pending_orders(latest, index, pending) ==
    [fill_events |-> execute_all(latest, index, pending), pending_orders |-> << >>]

\* process_order_event: [result, pending_orders] after the call
process_order_event(next_bar, pending, order_event) ==
    IF order_event = None THEN [result |-> None, pending_orders |-> pending]
    ELSE IF next_bar
         THEN [result |-> None, pending_orders |-> Append(pending, order_event)]
    ELSE [result |-> execute_order(latest_symbols_data, bar_index, order_event),
          pending_orders |-> pending]

----------------------------------------------------------------------------
(* Portfolio (portfolio/portfolio.py) *)

\* A holding without the key 'last_settle_price' carries NoPrice there.
NoPrice == << >>

NewHolding == [quantity |-> 0, avg_cost |-> Zero, available |-> 0,
               last_settle_price |-> NoPrice]

\* Portfolio.__init__
NewPortfolio(initial_capital) ==
    [initial_capital |-> initial_capital,
     current_holdings |-> << >>,          \* a dict: symbol -> holding
     current_cash |-> initial_capital,
     positions |-> << >>,
     all_holdings |-> << >>,
     total_realized_pnl |-> Zero,
     pending_settlements |-> << >>,
     margin_used |-> << >>]               \* a dict: symbol -> margin

\* dict[key] = value, on a function whose domain is the set of keys
DictSet(d, key, value) ==
    [k \in DOMAIN d \cup {key} |-> IF k = key THEN value ELSE d[k]]

\* dict.get(key, default)
DictGet(d, key, default) == IF key \in DOMAIN d THEN d[key] ELSE default

\* _add_current_holding with the commission added to the price of a sale too.
add_current_holding_same_sign(holding, price, quantity, commission) ==
    LET commission_per_share == IF quantity # 0
                                THEN RDiv(commission, R(Abs(quantity))) ELSE Zero
        leg == RAdd(price, commission_per_share)
    IN  IF quantity = 0 THEN holding
        ELSE [holding EXCEPT
              !.quantity = holding.quantity + quantity,
              !.avg_cost = RDiv(RAdd(RMul(holding.avg_cost, R(holding.quantity)),
                                     RMul(leg, R(quantity))),
                                R(holding.quantity + quantity))]

\* _add_current_holding, on the holding record
add_current_holding(holding, price, quantity, commission) ==
    LET current_quantity == holding.quantity
        current_avg_cost == holding.avg_cost
        commission_per_share == IF quantity # 0
                                THEN RDiv(commission, R(Abs(quantity))) ELSE Zero
        leg == IF quantity > 0 THEN RAdd(price, commission_per_share)
               ELSE RSub(price, commission_per_share)
    IN  IF quantity = 0 THEN holding
        ELSE [holding EXCEPT
              !.quantity = current_quantity + quantity,
              !.avg_cost = RDiv(RAdd(RMul(current_avg_cost, R(current_quantity)),
                                     RMul(leg, R(quantity))),
                                R(current_quantity + quantity))]

\* _reduce_current_holding, on the holding record
reduce_current_holding(holding, price, quantity, commission) ==
    IF holding.quantity > 0 THEN [holding EXCEPT !.quantity = @ - quantity]
    ELSE IF holding.quantity < 0 THEN [holding EXCEPT !.quantity = @ + quantity]
    ELSE holding

\* _calculate_pnl; the source leaves pnl unbound for quantity = 0
calculate_pnl(holding, contract_multiplier, price, quantity, commission) ==
    LET current_avg_cost == holding.avg_cost
        commission_per_share == IF quantity # 0
                                THEN RDiv(commission, R(Abs(quantity))) ELSE Zero
    IN  IF quantity < 0
        THEN RMul(RMul(R(Abs(quantity)),
                       RSub(RSub(price, commission_per_share), current_avg_cost)),
                  R(contract_multiplier))
        ELSE RMul(RMul(R(quantity),
                       RSub(current_avg_cost, RAdd(price, commission_per_share))),
                  R(contract_multiplier))

\* Lines 79-105 of process_fill_event: [holding, pnl] after the four cases
apply_fill_to_holding(holding, contract_multiplier, fill_event) ==
    LET fill_price == fill_event.fill_price
        quantity == fill_event.quantity
        commission == fill_event.commission
        current_quantity == holding.quantity
        quantity_change == IF fill_event.direction = "BUY" THEN quantity
                           ELSE -quantity
        new_quantity == current_quantity + quantity_change
    IN  IF current_quantity = 0
        THEN [holding |-> add_current_holding(holding, fill_price, new_quantity,
                                              commission),
              pnl |-> Zero]
        ELSE IF current_quantity * quantity_change > 0
        THEN [holding |-> add_current_holding(holding, fill_price, quantity_change,
                                              commission),
              pnl |-> Zero]
        ELSE IF current_quantity * quantity_change < 0
                /\ Abs(current_quantity) > Abs(quantity_change)
        THEN LET reduced == reduce_current_holding(holding, fill_price, quantity,
                                                   commission)
             IN  [holding |-> reduced,
                  pnl |-> calculate_pnl(reduced, contract_multiplier, fill_price,
                                        quantity, commission)]
        ELSE IF current_quantity * quantity_change < 0
                /\ Abs(current_quantity) <= Abs(quantity_change)
        THEN LET reduced == reduce_current_holding(holding, fill_price,
                                                   Abs(current_quantity), commission)
                 pnl == calculate_pnl(reduced, contract_multiplier, fill_price,
                                      quantity, commission)
             IN  [holding |-> IF new_quantity # 0
                              THEN add_current_holding(reduced, fill_price,
                                                       new_quantity, commission)
                              ELSE reduced,
                  pnl |-> pnl]
        ELSE [holding |-> holding, pnl |-> Zero]

\* Lines 107-121 of process_fill_event: [current_cash, margin_used, holding]
apply_fill_to_cash(pf, holding, current_quantity, fill_event) ==
    LET symbol == fill_event.symbol
        quantity == fill_event.quantity
        commission == fill_event.commission
        margin == calculate_margin(symbol, quantity, fill_event.fill_price)
    IN  IF fill_event.direction = "BUY"
        THEN [current_cash |-> RSub(pf.current_cash, RAdd(margin, commission)),
              margin_used |-> DictSet(pf.margin_used, symbol,
                                 RAdd(DictGet(pf.margin_used, symbol, Zero), margin)),
              holding |-> [holding EXCEPT
                           !.last_settle_price = fill_event.fill_price]]
        ELSE IF fill_event.direction = "SELL"
                /\ symbol \in DOMAIN pf.margin_used /\ current_quantity # 0
        THEN LET release_ratio == RNorm(quantity, Abs(current_quantity))
                 released == RMul(pf.margin_used[symbol], release_ratio)
             IN  [current_cash |-> RAdd(pf.current_cash, RSub(released, commission)),
                  margin_used |-> DictSet(pf.margin_used, symbol,
                                     RSub(pf.margin_used[symbol], released)),
                  holding |-> holding]
        ELSE [current_cash |-> pf.current_cash, margin_used |-> pf.margin_used,
              holding |-> holding]

PendingSettlement(symbol, quantity, buy_time, settlement_days) ==
    [symbol |-> symbol, quantity |-> quantity, buy_time |-> buy_time,
     settlement_days |-> settlement_days]

\* Lines 123-138 without the T+0 branch: every market settles as a T+N market.
apply_fill_to_availability_settling(pf, holding, market_rule, fill_event) ==
    IF fill_event.direction = "BUY"
    THEN [pending_settlements |->
             Append(pf.pending_settlements,
                    PendingSettlement(fill_event.symbol, fill_event.quantity,
                                      fill_event.datetime,
                                      market_rule.settlement_days)),
          holding |-> holding]
    ELSE [pending_settlements |-> pf.pending_settlements,
          holding |-> [holding EXCEPT !.available = @ - fill_event.quantity]]

\* Lines 123-138 with a purchase made available at once in every market.
apply_fill_to_availability_at_once(pf, holding, market_rule, fill_event) ==
    IF fill_event.direction = "BUY"
    THEN [pending_settlements |-> pf.pending_settlements,
          holding |-> [holding EXCEPT !.available = @ + fill_event.quantity]]
    ELSE [pending_settlements |-> pf.pending_settlements,
          holding |-> [holding EXCEPT !.available = @ - fill_event.quantity]]

\* Lines 123-138 of process_fill_event: [pending_settlements, holding]
apply_fill_to_availability(pf, holding, market_rule, fill_event) ==
    IF market_rule.settlement_days > 0
    THEN IF fill_event.direction = "BUY"
         THEN [pending_settlements |->
                  Append(pf.pending_settlements,
                         PendingSettlement(fill_event.symbol, fill_event.quantity,
                                           fill_event.datetime,
                                           market_rule.settlement_days)),
               holding |-> holding]
         ELSE IF fill_event.direction = "SELL"
         THEN [pending_settlements |-> pf.pending_settlements,
               holding |-> [holding EXCEPT !.available = @ - fill_event.quantity]]
         ELSE [pending_settlements |-> pf.pending_settlements, holding |-> holding]
    ELSE [pending_settlements |-> pf.pending_settlements,
          holding |-> [holding EXCEPT !.available = holding.quantity]]

Position(fill_event, pnl) ==
    [symbol |-> fill_event.symbol, fill_price |-> fill_event.fill_price,
     quantity |-> fill_event.quantity, commission |-> fill_event.commission,
     direction |-> fill_event.direction, time |-> fill_event.datetime,
     realized_pnl |-> pnl]

\* Lines 67-151 of process_fill_event, the body under `if not rejected`
accepted_fill(pf, fill_event) ==
    LET symbol == fill_event.symbol
        instrument == registry_get(symbol)
        market_rule == instrument.market_rule
        holding0 == DictGet(pf.current_holdings, symbol, NewHolding)
        ledger == apply_fill_to_holding(holding0, instrument.contract_multiplier,
                                        fill_event)
        cash == apply_fill_to_cash(pf, ledger.holding, holding0.quantity, fill_event)
        avail == apply_fill_to_availability(pf, cash.holding, market_rule,
                                            fill_event)
    IN  [pf EXCEPT
         !.current_holdings = DictSet(@, symbol, avail.holding),
         !.current_cash = cash.current_cash,
         !.margin_used = cash.margin_used,
         !.pending_settlements = avail.pending_settlements,
         !.total_realized_pnl = RAdd(@, ledger.pnl),
         !.positions = Append(@, Position(fill_event, ledger.pnl))]

\* process_fill_event without the check of the rejected flag.
process_fill_event_unchecked(pf, fill_event) == accepted_fill(pf, fill_event)

\* process_fill_event: the portfolio after the call
process_fill_event(pf, fill_event) ==
    IF fill_event.rejected THEN pf ELSE accepted_fill(pf, fill_event)

SignalEvent(symbol, datetime, signal_type, strength) ==
    [type |-> "SIGNAL", symbol |-> symbol, datetime |-> datetime,
     signal_type |-> signal_type, strength |-> strength]

MarketEvent(datetime, symbol) ==
    [type |-> "MARKET", datetime |-> datetime, symbol |-> symbol]

\* int() of a float: the whole part, towards zero
PyInt(a) == IF a[1] >= 0 THEN a[1] \div a[2] ELSE -((-a[1]) \div a[2])

\* Lines 50-56 of process_signal_event: the T+N check that refuses a SELL
sell_refused(pf, market_rule, symbol, direction, quantity) ==
    /\ direction = "SELL"
    /\ market_rule.settlement_days > 0
    /\ symbol \in DOMAIN pf.current_holdings
    /\ pf.current_holdings[symbol].available < quantity

\* A conversion that never compares the margin with the cash.
process_signal_event_unfunded(pf, signal_event, bar) ==
    IF signal_event = None THEN None
    ELSE IF signal_event.signal_type \notin {"LONG", "SHORT"} THEN None
    ELSE
    LET direction == IF signal_event.signal_type = "LONG" THEN "BUY" ELSE "SELL"
        symbol == signal_event.symbol
        market_rule == registry_get(symbol).market_rule
        quantity == normalize_quantity(market_rule, PyInt(signal_event.strength))
    IN  IF quantity = 0 THEN None
        ELSE IF sell_refused(pf, market_rule, symbol, direction, quantity) THEN None
        ELSE OrderEvent(symbol, quantity, direction, signal_event.datetime)

\* process_signal_event with the symbol's latest bar: an Order or None.
\* (With no latest bar the source raises at bar['close'].)
process_signal_event(pf, signal_event, bar) ==
    IF signal_event = None THEN None
    ELSE IF signal_event.signal_type \notin {"LONG", "SHORT"} THEN None
    ELSE
    LET direction == IF signal_event.signal_type = "LONG" THEN "BUY" ELSE "SELL"
        symbol == signal_event.symbol
        market_rule == registry_get(symbol).market_rule
        quantity == normalize_quantity(market_rule, PyInt(signal_event.strength))
        margin == calculate_margin(symbol, quantity, bar.close)
    IN  IF RLt(pf.current_cash, margin) THEN None
        ELSE IF quantity = 0 THEN None
        ELSE IF sell_refused(pf, market_rule, symbol, direction, quantity) THEN None
        ELSE OrderEvent(symbol, quantity, direction, signal_event.datetime)

\* A check that lets a settlement mature at any tick from the purchase on.
matured_at_once(settlement, current_time) ==
    current_time >= settlement.buy_time

\* Whether a pending settlement has matured at current_time (line 276-278)
matured(settlement, current_time) ==
    current_time >= settlement.buy_time + settlement.settlement_days * MinutesPerDay

RECURSIVE release_settlements(_, _, _)
\* The loop of _process_settlements over the pending list:
\* [holdings, pending] with the matured entries released and removed
release_settlements(holdings, pending, current_time) ==
    IF pending = << >> THEN [holdings |-> holdings, pending |-> << >>]
    ELSE LET settlement == Head(pending)
             symbol == settlement.symbol
             released == IF matured(settlement, current_time)
                            /\ symbol \in DOMAIN holdings
                         THEN [holdings EXCEPT ![symbol].available =
                                                  @ + settlement.quantity]
                         ELSE holdings
             rest == release_settlements(released, Tail(pending), current_time)
         IN  IF matured(settlement, current_time) THEN rest
             ELSE [holdings |-> rest.holdings,
                   pending |-> <<settlement>> \o rest.pending]

\* _process_settlements: the portfolio after the call
process_settlements(pf, current_time) ==
    IF pf.pending_settlements = << >> THEN pf
    ELSE LET r == release_settlements(pf.current_holdings, pf.pending_settlements,
                                      current_time)
         IN  [pf EXCEPT !.current_holdings = r.holdings,
                        !.pending_settlements = r.pending]

\* Lines 170-194 with line 184 left out: last_settle_price is never advanced.
mark_to_market_unsettled(symbol, position, latest_bar) ==
    LET instrument == registry_get(symbol)
        current_price == latest_bar.close
        quantity == R(position.quantity)
        contract_multiplier == R(instrument.contract_multiplier)
        prev_price == IF position.last_settle_price = NoPrice THEN position.avg_cost
                      ELSE position.last_settle_price
        daily == instrument.market_rule.requires_daily_settlement
        gain == RMul(RMul(RSub(current_price, prev_price), quantity),
                     contract_multiplier)
    IN  [position |-> position,
         mtm_pnl |-> IF daily THEN gain ELSE Zero,
         market_value |-> RMul(RMul(quantity, current_price), contract_multiplier),
         unrealized_pnl |->
            IF daily THEN gain
            ELSE RMul(RMul(RSub(current_price, position.avg_cost), quantity),
                      contract_multiplier)]

\* Lines 170-194 of update_timeindex for one symbol: [position, mtm_pnl,
\* market_value, unrealized_pnl]
mark_to_market(symbol, position, latest_bar) ==
    LET instrument == registry_get(symbol)
        market_rule == instrument.market_rule
        current_price == latest_bar.close
        quantity == R(position.quantity)
        avg_cost == position.avg_cost
        contract_multiplier == R(instrument.contract_multiplier)
        prev_price == IF position.last_settle_price = NoPrice THEN avg_cost
                      ELSE position.last_settle_price
        mtm_pnl == IF market_rule.requires_daily_settlement
                   THEN RMul(RMul(RSub(current_price, prev_price), quantity),
                             contract_multiplier)
                   ELSE Zero
        settled == IF market_rule.requires_daily_settlement
                   THEN [position EXCEPT !.last_settle_price = current_price]
                   ELSE position
    IN  [position |-> settled,
         mtm_pnl |-> mtm_pnl,
         market_value |-> RMul(RMul(quantity, current_price), contract_multiplier),
         unrealized_pnl |->
            IF market_rule.requires_daily_settlement
            THEN RMul(RMul(RSub(current_price, settled.last_settle_price), quantity),
                      contract_multiplier)
            ELSE RMul(RMul(RSub(current_price, avg_cost), quantity),
                      contract_multiplier)]

\* The symbols of the holdings dict, in the order the loop visits them.
RECURSIVE HeldFrom(_, _)
HeldFrom(k, holdings) ==
    IF k > Len(Symbols) THEN << >>
    ELSE (IF Symbols[k] \in DOMAIN holdings THEN <<Symbols[k]>> ELSE << >>)
         \o HeldFrom(k + 1, holdings)

RECURSIVE snapshot_loop_cash_unmarked(_, _, _, _)
\* The loop without line 181: the day's gain is not added to the snapshot's cash.
snapshot_loop_cash_unmarked(todo, acc, latest, index) ==
    IF todo = << >> THEN acc
    ELSE LET symbol == Head(todo)
             position == acc.pf.current_holdings[symbol]
             latest_bar == get_latest_bar_in(latest, index, symbol)
         IN  IF position.quantity = 0 \/ latest_bar = None
             THEN snapshot_loop_cash_unmarked(Tail(todo), acc, latest, index)
             ELSE LET m == mark_to_market(symbol, position, latest_bar)
                  IN  snapshot_loop_cash_unmarked(Tail(todo),
                        [pf |-> [acc.pf EXCEPT
                                 !.current_cash = RAdd(@, m.mtm_pnl),
                                 !.current_holdings[symbol] = m.position],
                         holdings |-> [acc.holdings EXCEPT
                                 !.total = RAdd(RAdd(@, m.mtm_pnl), m.market_value),
                                 !.value = DictSet(@, symbol, m.market_value),
                                 !.pnl = DictSet(@, symbol, m.unrealized_pnl)]],
                        latest, index)

RECURSIVE snapshot_loop(_, _, _, _)
\* The loop of update_timeindex (lines 164-194): acc = [pf, holdings]
snapshot_loop(todo, acc, latest, index) ==
    IF todo = << >> THEN acc
    ELSE LET symbol == Head(todo)
             position == acc.pf.current_holdings[symbol]
             latest_bar == get_latest_bar_in(latest, index, symbol)
         IN  IF position.quantity = 0 \/ latest_bar = None
             THEN snapshot_loop(Tail(todo), acc, latest, index)
             ELSE LET m == mark_to_market(symbol, position, latest_bar)
                  IN  snapshot_loop(Tail(todo),
                        [pf |-> [acc.pf EXCEPT
                                 !.current_cash = RAdd(@, m.mtm_pnl),
                                 !.current_holdings[symbol] = m.position],
                         holdings |-> [acc.holdings EXCEPT
                                 !.cash = RAdd(@, m.mtm_pnl),
                                 !.total = RAdd(RAdd(@, m.mtm_pnl), m.market_value),
                                 !.value = DictSet(@, symbol, m.market_value),
                                 !.pnl = DictSet(@, symbol, m.unrealized_pnl)]],
                        latest, index)

\* update_timeindex on the data handler's state: the portfolio after the call
update_timeindex(pf, market_event, latest, index) ==
    LET settled == process_settlements(pf, market_event.datetime)
        holdings == [time |-> market_event.datetime,
                     cash |-> settled.current_cash,
                     total |-> settled.current_cash,
                     unrealized_pnl |-> Zero,
                     value |-> << >>, pnl |-> << >>]
        r == snapshot_loop(HeldFrom(1, settled.current_holdings),
                           [pf |-> settled, holdings |-> holdings], latest, index)
    IN  [r.pf EXCEPT !.all_holdings = Append(@, r.holdings)]

\* get_holding
get_holding(pf, symbol) ==
    IF symbol \in DOMAIN pf.current_holdings THEN pf.current_holdings[symbol]
    ELSE None

----------------------------------------------------------------------------
(* The data and configurations the runs are drawn from *)

MaxBars == 4          \* bars per symbol buffer
MaxFills == 2        \* fills handed to the portfolio in a ledger run
MaxSignals == 2       \* signals the strategy emits in an engine run
MaxOrders == 2        \* orders queued in the execution handler between two bars
MaxCalls == 2         \* calls of get_historical_data in a loader run

\* The initial_capital the Portfolio is constructed with: enough for a few lots
\* at the bars' prices, and small enough for cash at a resolution of 1/300000
\* to stay within TLC's integers.
InitialCapital == 5000

At(day, hour, minute) == day * MinutesPerDay + hour * 60 + minute

\* Bar times (day 0 is a Monday): Thu 10:00, Thu 15:30, Fri 10:30, Sat 10:00,
\* then Mon 10:00, Mon 15:30, Tue 10:30, Wed 10:00, ...
BarTime(i) ==
    LET week == i \div 4
    IN  CASE i % 4 = 0 -> At(3 + 4 * week, 10, 0)
          [] i % 4 = 1 -> At(3 + 4 * week, 15, 30)
          [] i % 4 = 2 -> At(4 + 4 * week, 10, 30)
          [] i % 4 = 3 -> At(5 + 4 * week, 10, 0)

Opens == <<10, 13, 9, 11>>
Closes == <<11, 10, 10, 12>>
Volumes == <<10000, 0, 400, 10000>>

\* The bar of `symbol` at index i (from 0); the second symbol trades at twice
\* the price of the first.
Bar(symbol, i) ==
    LET k == (i % 4) + 1
        scale == IF symbol = Symbols[1] THEN 1 ELSE 2
        open == scale * Opens[k]
        close == scale * Closes[k]
    IN  [ticker |-> symbol, timestamp |-> BarTime(i), datetime_local |-> BarTime(i),
         open |-> R(open), close |-> R(close),
         high |-> R((IF open > close THEN open ELSE close) + 1),
         low |-> R((IF open < close THEN open ELSE close) - 1),
         volume |-> Volumes[k]]

Buffer(symbol, n) == [i \in 1..n |-> Bar(symbol, i - 1)]

\* Buffer lengths of the two symbols: equal, or one ending before the other.
BufferLengths == {<<MaxBars, MaxBars>>, <<MaxBars, MaxBars - 2>>,
                  <<MaxBars - 1, MaxBars>>}

MarketTypes == {"china_a", "us_stock", "hk_stock", "crypto", "futures"}

\* The registry of a run: every symbol a Stock under the run's market rule, or
\* (market type "futures") a Future with multiplier 10 expiring at the third bar.
Registry(market_type) ==
    [s \in SymbolSet |->
        IF market_type = "futures"
        THEN Future(s, FuturesRules, 10, BarTime(2))
        ELSE Stock(s, create_rules(market_type))]

NoCall == [op |-> "none", n |-> 0]

InitData(lengths) ==
    /\ symbols_data = [s \in SymbolSet |->
                         Buffer(s, IF s = Symbols[1] THEN lengths[1] ELSE lengths[2])]
    /\ latest_symbols_data = [s \in SymbolSet |-> << >>]
    /\ bar_index = 0

InitRest ==
    /\ pending_orders = << >>
    /\ event_queue = << >>
    /\ portfolio = NewPortfolio(R(InitialCapital))
    /\ call = NoCall
    /\ db = {}

----------------------------------------------------------------------------
(* The engine loop (engine.py) *)

Init ==
    /\ \E lengths \in BufferLengths : InitData(lengths)
    /\ \E market_type \in MarketTypes : registry = Registry(market_type)
    /\ fill_on_next_bar \in BOOLEAN
    /\ pc = "advance"
    /\ InitRest

\* The strengths of the signals: floats, whole (100.0), fractional (250.5) and
\* below a lot of 100 (50.0).
Strengths == {R(100), <<501, 2>>, R(50)}

\* What a strategy may return from calculate_signal for a Market event.
StrategySignals(event) ==
    {SignalEvent(Symbols[1], event.datetime, ty, st) :
        ty \in {"LONG", "SHORT"}, st \in Strengths}
    \cup {SignalEvent(Symbols[2], event.datetime, "SHORT", R(100)),
          SignalEvent(Symbols[1], event.datetime, "EXIT", R(100))}

SignalsSoFar == call.n

\* One pass of `while True`: update_bars, then the pending orders' Fills and the
\* Market event are put on the queue; or the loop breaks.
Advance ==
    /\ UNCHANGED db
    /\ pc = "advance"
    /\ LET r == update_bars
           latest_bar == get_latest_bar_in(r.latest, r.bar_index, Symbols[1])
           p == process_pending_orders(r.latest, r.bar_index, pending_orders)
       IN  IF ~r.has_data
           THEN /\ pc' = "done"
                /\ UNCHANGED <<latest_symbols_data, bar_index, pending_orders,
                               event_queue, call>>
           ELSE /\ latest_symbols_data' = r.latest
                /\ bar_index' = r.bar_index
                /\ pending_orders' = p.pending_orders
                /\ call' = [op |-> "update_bars", n |-> call.n,
                            orders |-> pending_orders, fills |-> p.fill_events]
                /\ IF latest_bar = None
                   THEN \* latest_bar['datetime_local'] raises
                        /\ event_queue' = event_queue \o p.fill_events
                        /\ pc' = "crashed"
                   ELSE /\ event_queue' = (event_queue \o p.fill_events)
                              \o <<MarketEvent(latest_bar.datetime_local,
                                               latest_bar.ticker)>>
                        /\ pc' = "drain"
    /\ UNCHANGED <<symbols_data, registry, portfolio, fill_on_next_bar>>

\* pc after an event was dispatched and `queue` is what is left
AfterDispatch(queue) == IF queue = << >> THEN "advance" ELSE "drain"

DispatchMarket ==
    /\ UNCHANGED db
    /\ pc = "drain" /\ event_queue # << >>
    /\ Head(event_queue).type = "MARKET"
    /\ LET event == Head(event_queue)
       IN  /\ portfolio' = update_timeindex(portfolio, event, latest_symbols_data,
                                            bar_index)
           /\ \E signal_event \in
                    {None} \cup (IF SignalsSoFar < MaxSignals
                                 THEN StrategySignals(event) ELSE {}) :
                /\ event_queue' = IF signal_event # None
                                  THEN Append(Tail(event_queue), signal_event)
                                  ELSE Tail(event_queue)
                /\ call' = [op |-> "update_timeindex",
                            n |-> IF signal_event # None THEN call.n + 1 ELSE call.n,
                            event |-> event]
                /\ pc' = AfterDispatch(event_queue')
    /\ UNCHANGED <<symbols_data, latest_symbols_data, bar_index, registry,
                   pending_orders, fill_on_next_bar>>

DispatchSignal ==
    /\ UNCHANGED db
    /\ pc = "drain" /\ event_queue # << >>
    /\ Head(event_queue).type = "SIGNAL"
    /\ LET event == Head(event_queue)
           bar == get_latest_bar(event.symbol)
           order_event == process_signal_event(portfolio, event, bar)
       IN  IF bar = None /\ event.signal_type \in {"LONG", "SHORT"}
           THEN \* bar['close'] raises
                /\ pc' = "crashed"
                /\ event_queue' = Tail(event_queue)
                /\ call' = [op |-> "process_signal_event", n |-> call.n,
                            event |-> event, result |-> None]
           ELSE /\ event_queue' = IF order_event # None
                                  THEN Append(Tail(event_queue), order_event)
                                  ELSE Tail(event_queue)
                /\ call' = [op |-> "process_signal_event", n |-> call.n,
                            event |-> event, result |-> order_event]
                /\ pc' = AfterDispatch(event_queue')
    /\ UNCHANGED <<symbols_data, latest_symbols_data, bar_index, registry,
                   pending_orders, portfolio, fill_on_next_bar>>

DispatchOrder ==
    /\ UNCHANGED db
    /\ pc = "drain" /\ event_queue # << >>
    /\ Head(event_queue).type = "ORDER"
    /\ LET event == Head(event_queue)
           r == process_order_event(fill_on_next_bar, pending_orders, event)
       IN  /\ pending_orders' = r.pending_orders
           /\ event_queue' = IF r.result # None
                             THEN Append(Tail(event_queue), r.result)
                             ELSE Tail(event_queue)
           /\ call' = [op |-> "process_order_event", n |-> call.n,
                       event |-> event, result |-> r.result]
           /\ pc' = AfterDispatch(event_queue')
    /\ UNCHANGED <<symbols_data, latest_symbols_data, bar_index, registry,
                   portfolio, fill_on_next_bar>>

DispatchFill ==
    /\ UNCHANGED db
    /\ pc = "drain" /\ event_queue # << >>
    /\ Head(event_queue).type = "FILL"
    /\ LET event == Head(event_queue)
       IN  /\ portfolio' = process_fill_event(portfolio, event)
           /\ event_queue' = Tail(event_queue)
           /\ call' = [op |-> "process_fill_event", n |-> call.n, event |-> event]
           /\ pc' = AfterDispatch(event_queue')
    /\ UNCHANGED <<symbols_data, latest_symbols_data, bar_index, registry,
                   pending_orders, fill_on_next_bar>>

Next ==
    \/ Advance
    \/ DispatchMarket
    \/ DispatchSignal
    \/ DispatchOrder
    \/ DispatchFill

Spec == Init /\ [][Next]_vars

----------------------------------------------------------------------------
(* The Portfolio on its own: any Fill and any Market event it may be handed *)

LedgerMarketTypes == {"china_a", "us_stock", "crypto", "futures"}

LedgerInit ==
    /\ InitData(<<MaxBars, MaxBars - 2>>)
    /\ \E market_type \in LedgerMarketTypes : registry = Registry(market_type)
    /\ fill_on_next_bar = TRUE
    /\ pc = "ledger"
    /\ InitRest

\* Fill sizes: two and three units, a unit being the lot, or 10 where the lot is 1.
FillQuantities(symbol) ==
    LET lot == registry[symbol].market_rule.lot_size
        unit == IF lot = 1 THEN 10 ELSE lot
    IN  {2 * unit, 3 * unit}

\* The Fills the ledger is driven with at time t: on the first symbol, either
\* direction, two sizes, prices 10 and 11 free of commission or 11 with a
\* commission of 3; one rejected Fill; one Fill on the second symbol.
LedgerFills(t) ==
    LET s1 == Symbols[1]
        s2 == Symbols[2]
        exchange == registry[s1].market_rule.market_name
    IN  {FillEvent(s1, exchange, q, d, R(pc_[1]), t, FALSE, R(pc_[2]), R(pc_[1])) :
            q \in FillQuantities(s1), d \in {"BUY", "SELL"},
            pc_ \in {<<10, 0>>, <<11, 0>>, <<11, 3>>}}
        \cup {FillEvent(s1, exchange, 2 * registry[s1].market_rule.lot_size, "BUY",
                        R(10), t, TRUE, Zero, R(10)),
              FillEvent(s2, exchange, 2 * registry[s2].market_rule.lot_size, "BUY",
                        R(20), t, FALSE, Zero, R(20))}

\* A Market event: the data handler advances and update_timeindex runs.
LedgerMarket ==
    /\ UNCHANGED db
    /\ pc = "ledger"
    /\ LET r == update_bars
           event == MarketEvent(BarTime(bar_index), Symbols[1])
       IN  /\ r.has_data
           /\ latest_symbols_data' = r.latest
           /\ bar_index' = r.bar_index
           /\ portfolio' = update_timeindex(portfolio, event, r.latest, r.bar_index)
           /\ call' = [op |-> "update_timeindex", n |-> call.n, event |-> event]
    /\ UNCHANGED <<symbols_data, registry, pending_orders, event_queue,
                   fill_on_next_bar, pc>>

\* A Fill dated at the current bar is handed to process_fill_event; as in the
\* engine, where a Market event gives rise to one signal, one Fill per bar.
LedgerFill ==
    /\ UNCHANGED db
    /\ pc = "ledger"
    /\ call.op = "update_timeindex"
    /\ call.n < MaxFills
    /\ \E fill_event \in LedgerFills(BarTime(bar_index - 1)) :
          /\ portfolio' = process_fill_event(portfolio, fill_event)
          /\ call' = [op |-> "process_fill_event", n |-> call.n + 1,
                      event |-> fill_event]
    /\ UNCHANGED <<symbols_data, latest_symbols_data, bar_index, registry,
                   pending_orders, event_queue, fill_on_next_bar, pc>>

LedgerNext == LedgerMarket \/ LedgerFill

LedgerSpec == LedgerInit /\ [][LedgerNext]_vars

----------------------------------------------------------------------------
(* The ExecutionHandler on its own: any Order it may be handed between bars *)

ExecMarketTypes == {"china_a", "us_stock", "hk_stock", "crypto"}

ExecInit ==
    /\ \E lengths \in BufferLengths : InitData(lengths)
    /\ \E market_type \in ExecMarketTypes : registry = Registry(market_type)
    /\ fill_on_next_bar \in BOOLEAN
    /\ pc = "exec"
    /\ InitRest

\* The Orders the handler is driven with at time t: either symbol, either
\* direction, a round lot or an odd one.
ExecOrders(t) ==
    {OrderEvent(s, q, d, t) : s \in SymbolSet, q \in {100, 150}, d \in {"BUY", "SELL"}}

\* An Order dated at the current bar is handed to process_order_event.
ExecOrder ==
    /\ UNCHANGED db
    /\ pc = "exec"
    /\ bar_index >= 1
    /\ Len(pending_orders) < MaxOrders
    /\ \E order_event \in ExecOrders(BarTime(bar_index - 1)) :
          LET r == process_order_event(fill_on_next_bar, pending_orders, order_event)
          IN  /\ pending_orders' = r.pending_orders
              /\ call' = [op |-> "process_order_event", n |-> call.n,
                          event |-> order_event, result |-> r.result]
    /\ UNCHANGED <<symbols_data, latest_symbols_data, bar_index, registry,
                   event_queue, portfolio, fill_on_next_bar, pc>>

\* A new bar: the data handler advances and process_pending_orders runs.
ExecTick ==
    /\ UNCHANGED db
    /\ pc = "exec"
    /\ LET r == update_bars
           p == process_pending_orders(r.latest, r.bar_index, pending_orders)
       IN  /\ r.has_data
           /\ latest_symbols_data' = r.latest
           /\ bar_index' = r.bar_index
           /\ pending_orders' = p.pending_orders
           /\ call' = [op |-> "process_pending_orders", n |-> call.n,
                       orders |-> pending_orders, fills |-> p.fill_events]
    /\ UNCHANGED <<symbols_data, registry, event_queue, portfolio,
                   fill_on_next_bar, pc>>

ExecNext == ExecOrder \/ ExecTick

ExecSpec == ExecInit /\ [][ExecNext]_vars

----------------------------------------------------------------------------
(* DataLoader (data_loader.py)                                              *)
(*                                                                          *)
(* Interval and frequency strings are sequences of characters, so that the  *)
(* loader's slicing and int() act on them as in the source.  A call that    *)
(* may raise returns [ok |-> TRUE, value |-> v] or                          *)
(* [ok |-> FALSE, error |-> "..."].  Timestamps are UTC seconds.            *)

Returned(v) == [ok |-> TRUE, value |-> v]
Raised(e) == [ok |-> FALSE, error |-> e]

Digits == <<"0", "1", "2", "3", "4", "5", "6", "7", "8", "9">>

IsDigit(c) == \E d \in DOMAIN Digits : Digits[d] = c

DigitValue(c) == (CHOOSE d \in DOMAIN Digits : Digits[d] = c) - 1

\* int(s) of a string: defined for a non-empty run of digits, else ValueError
IsInt(s) == s # << >> /\ \A i \in DOMAIN s : IsDigit(s[i])

RECURSIVE IntOf(_)
IntOf(s) ==
    IF s = << >> THEN 0
    ELSE IntOf(SubSeq(s, 1, Len(s) - 1)) * 10 + DigitValue(s[Len(s)])

\* str.endswith
EndsWith(s, suffix) ==
    /\ Len(s) >= Len(suffix)
    /\ SubSeq(s, Len(s) - Len(suffix) + 1, Len(s)) = suffix

\* s[:-k]
DropLast(s, k) == SubSeq(s, 1, Len(s) - k)

\* conversion_table of _parse_interval, keyed by the unit's characters
conversion_table ==
    (<<"m">> :> 60) @@ (<<"h">> :> 3600) @@ (<<"d">> :> 86400)
    @@ (<<"w">> :> 604800) @@ (<<"w", "k">> :> 604800)
    @@ (<<"m", "o">> :> 2592000) @@ (<<"M">> :> 2592000)

\* _parse_interval: the seconds of an interval string
parse_interval(interval) ==
    LET two == EndsWith(interval, <<"w", "k">>) \/ EndsWith(interval, <<"m", "o">>)
        num == IF two THEN DropLast(interval, 2) ELSE DropLast(interval, 1)
        unit == IF two THEN SubSeq(interval, Len(interval) - 1, Len(interval))
                ELSE <<interval[Len(interval)]>>
    IN  IF ~IsInt(num) THEN Raised("ValueError")
        ELSE IF unit \notin DOMAIN conversion_table THEN Raised("KeyError")
        ELSE Returned(IntOf(num) * conversion_table[unit])

stock_intervals ==
    <<(<<"1", "m">>), <<"2", "m">>, <<"5", "m">>, <<"1", "5", "m">>,
      <<"3", "0", "m">>, <<"6", "0", "m">>, <<"9", "0", "m">>, <<"1", "h">>,
      <<"1", "d">>, <<"5", "d">>, <<"1", "w", "k">>, <<"1", "m", "o">>,
      <<"3", "m", "o">> >>

crypto_intervals ==
    <<(<<"1", "m">>), <<"3", "m">>, <<"5", "m">>, <<"1", "5", "m">>,
      <<"3", "0", "m">>, <<"1", "h">>, <<"2", "h">>, <<"4", "h">>, <<"6", "h">>,
      <<"8", "h">>, <<"1", "2", "h">>, <<"1", "d">>, <<"3", "d">>, <<"1", "w">>,
      <<"1", "M">> >>

\* supported_intervals of a source
supported_intervals(source) ==
    IF source = "stock" THEN stock_intervals ELSE crypto_intervals

Contains(seq, x) == \E i \in DOMAIN seq : seq[i] = x

RECURSIVE best_interval_from_first(_, _, _, _)
\* The loop leaving at the first match: the first interval shorter than the
\* target that divides it.
best_interval_from_first(k, supported, target_interval_sec, best) ==
    IF k > Len(supported) THEN best
    ELSE LET supported_interval_sec == parse_interval(supported[k]).value
         IN  IF /\ supported_interval_sec < target_interval_sec
                /\ target_interval_sec % supported_interval_sec = 0
             THEN [interval |-> supported[k], sec |-> supported_interval_sec]
             ELSE best_interval_from_first(k + 1, supported, target_interval_sec, best)

RECURSIVE best_interval_from(_, _, _, _)
\* The loop of _get_best_api_interval from the k-th supported interval on:
\* the last interval shorter than the target that divides it.
best_interval_from(k, supported, target_interval_sec, best) ==
    IF k > Len(supported) THEN best
    ELSE LET supported_interval_sec == parse_interval(supported[k]).value
         IN  IF /\ supported_interval_sec < target_interval_sec
                /\ target_interval_sec % supported_interval_sec = 0
             THEN best_interval_from(k + 1, supported, target_interval_sec,
                     [interval |-> supported[k], sec |-> supported_interval_sec])
             ELSE best_interval_from(k + 1, supported, target_interval_sec, best)

\* _get_best_api_interval: (interval, aggregate?, aggregate_count)
get_best_api_interval(target_interval, source) ==
    LET target == IF source = "stock" /\ target_interval = <<"w">>
                  THEN <<"w", "k">> ELSE target_interval
        supported == supported_intervals(source)
        target_interval_sec == parse_interval(target)
        best == best_interval_from(1, supported, target_interval_sec.value,
                                   [interval |-> << >>, sec |-> 0])
    IN  IF Contains(supported, target) THEN Returned(<<target, FALSE, 1>>)
        ELSE IF ~target_interval_sec.ok THEN target_interval_sec
        ELSE IF best.sec = 0 THEN Raised("ZeroDivisionError")
        ELSE Returned(<<best.interval, TRUE, target_interval_sec.value \div best.sec>>)

\* The value of an expression with `x` bound: Only({f(x) : x \in {e}}) is
\* f(e), with e computed once, as a local variable is in the source.
Only(S) == CHOOSE x \in S : TRUE

\* ORDER BY timestamp: the elements of a set of integers in ascending order
Ascending(S) ==
    [i \in 1..Cardinality(S) |->
        CHOOSE x \in S : Cardinality({y \in S : y < x}) = i - 1]

\* SELECT timestamp ... WHERE ticker, frequency, timestamp in [start, end]
existing_timestamps(rows, ticker, start_time, end_time, frequency) ==
    Ascending({row.timestamp : row \in
        {r \in rows : /\ r.ticker = ticker
                      /\ r.frequency = frequency
                      /\ r.timestamp >= start_time
                      /\ r.timestamp <= end_time}})

\* Lines 255-263 of _check_exist_data: the seconds of the frequency
frequency_seconds(frequency) ==
    LET unit == frequency[Len(frequency)]
        interval_str == DropLast(frequency, 1)
    IN  IF ~IsInt(interval_str) THEN Raised("ValueError")
        ELSE IF unit = "m" THEN Returned(IntOf(interval_str) * 60)
        ELSE IF unit = "h" THEN Returned(IntOf(interval_str) * 3600)
        ELSE Returned(IntOf(interval_str) * 86400)

\* Lines 273-278: the gaps between neighbouring timestamps, in the order of i
inner_gaps(existing, step) ==
    LET wide == SelectSeq([i \in 1..(Len(existing) - 1) |-> i],
                          LAMBDA i : existing[i + 1] - existing[i] > step)
    IN  [k \in DOMAIN wide |->
            <<existing[wide[k]] + step, existing[wide[k] + 1] - step>>]

\* _check_exist_data on the rows of the table: the missing (start, end) ranges
check_exist_data(rows, ticker, start_time, end_time, frequency) ==
    Only({
        LET step == frequency_seconds(frequency)
            head == IF existing[1] > start_time
                    THEN <<(<<start_time, existing[1] - step.value>>)>> ELSE << >>
            tail == IF existing[Len(existing)] < end_time
                    THEN <<(<<existing[Len(existing)] + step.value, end_time>>)>>
                    ELSE << >>
        IN  IF existing = << >> THEN Returned(<<(<<start_time, end_time>>)>>)
            ELSE IF ~step.ok THEN step
            ELSE Returned(head \o tail \o inner_gaps(existing, step.value))
        : existing \in {existing_timestamps(rows, ticker, start_time, end_time,
                                            frequency)}})

\* What a value slot of a bar may hold besides a number: Python's None (SQL
\* NULL), and the float NaN that pandas puts where a value is missing.
Null == << >>
NaN == <<"nan">>

\* Float comparisons: every comparison with NaN is false.
FLe(a, b) == a # NaN /\ b # NaN /\ RLe(a, b)
FLt(a, b) == a # NaN /\ b # NaN /\ RLt(a, b)

\* Float addition: NaN absorbs.
FAdd(a, b) == IF a = NaN \/ b = NaN THEN NaN ELSE RAdd(a, b)

\* _invalidate_data
invalidate_data(item) ==
    [item EXCEPT !.open = Null, !.high = Null, !.low = Null, !.close = Null,
                 !.volume = Null]

\* Lines 181-197 of _data_preprocessing: the checks that invalidate an item
fails_validation(item) ==
    \/ item.open = Null \/ item.high = Null \/ item.low = Null
    \/ item.close = Null \/ item.volume = Null
    \/ FLe(item.open, Zero) \/ FLe(item.high, Zero) \/ FLe(item.low, Zero)
    \/ FLe(item.close, Zero)
    \/ FLt(item.volume, Zero)
    \/ FLt(item.high, item.low)
    \/ ~(FLe(item.low, item.open) /\ FLe(item.open, item.high))
    \/ ~(FLe(item.low, item.close) /\ FLe(item.close, item.high))

\* _data_preprocessing: one item
clean_item(item) == IF fails_validation(item) THEN invalidate_data(item) ELSE item

\* _data_preprocessing (the price-jump check only logs)
data_preprocessing(data) == [i \in DOMAIN data |-> clean_item(data[i])]

RECURSIVE PyMax(_, _)
\* max(): the first element that no later one exceeds
PyMax(values, best) ==
    IF values = << >> THEN best
    ELSE PyMax(Tail(values), IF FLt(best, Head(values)) THEN Head(values) ELSE best)

RECURSIVE PyMin(_, _)
\* min()
PyMin(values, best) ==
    IF values = << >> THEN best
    ELSE PyMin(Tail(values), IF FLt(Head(values), best) THEN Head(values) ELSE best)

RECURSIVE PySum(_)
\* sum()
PySum(values) ==
    IF values = << >> THEN Zero
    ELSE FAdd(PySum(SubSeq(values, 1, Len(values) - 1)), values[Len(values)])

\* Lines 383-395 of _aggregate_data: the bar of one full group
aggregated_bar(group, target_interval) ==
    LET highs == [i \in DOMAIN group |-> group[i].high]
        lows == [i \in DOMAIN group |-> group[i].low]
    IN  [ticker |-> group[1].ticker,
         timestamp |-> group[1].timestamp,
         frequency |-> target_interval,
         open |-> group[1].open,
         high |-> PyMax(Tail(highs), Head(highs)),
         low |-> PyMin(Tail(lows), Head(lows)),
         close |-> group[Len(group)].close,
         volume |-> PySum([i \in DOMAIN group |-> group[i].volume]),
         source |-> group[1].source,
         timezone |-> group[1].timezone,
         created_at |-> group[1].created_at]

\* range(0, len(data), aggregate_count)
group_starts(data, aggregate_count) ==
    [k \in 1..((Len(data) + aggregate_count - 1) \div aggregate_count) |->
        (k - 1) * aggregate_count]

\* data[i:i + aggregate_count]
group_at(data, i, aggregate_count) ==
    SubSeq(data, i + 1,
           IF i + aggregate_count < Len(data) THEN i + aggregate_count ELSE Len(data))

\* An aggregation that keeps the trailing partial group.
aggregate_data_keeping_tail(data, aggregate_count, target_interval) ==
    LET starts == group_starts(data, aggregate_count)
    IN  [k \in DOMAIN starts |->
            aggregated_bar(group_at(data, starts[k], aggregate_count), target_interval)]

\* _aggregate_data: the groups shorter than aggregate_count are skipped
aggregate_data(data, aggregate_count, target_interval) ==
    LET full == SelectSeq(group_starts(data, aggregate_count),
                   LAMBDA i : Len(group_at(data, i, aggregate_count)) >= aggregate_count)
    IN  [k \in DOMAIN full |->
            aggregated_bar(group_at(data, full[k], aggregate_count), target_interval)]

\* A row has the key of the bar: the table's primary key (ticker, timestamp,
\* frequency).
SameKey(row, d) ==
    /\ row.ticker = d.ticker
    /\ row.timestamp = d.timestamp
    /\ row.frequency = d.frequency

\* A float as SQLite binds it: NaN is stored as NULL.
Bound(x) == IF x = NaN THEN Null ELSE x

\* The tuple _store_data inserts for a bar
RowOf(d) ==
    [ticker |-> d.ticker, timestamp |-> d.timestamp, frequency |-> d.frequency,
     open |-> Bound(d.open), high |-> Bound(d.high), low |-> Bound(d.low),
     close |-> Bound(d.close), volume |-> Bound(d.volume), source |-> d.source,
     created_at |-> d.created_at]

\* INSERT OR REPLACE: a conflicting row gives way to the bar, the last bar
\* of a key staying.
store_data_replacing(rows, data) ==
    {row \in rows : \A i \in DOMAIN data : ~SameKey(row, data[i])}
    \cup {RowOf(data[i]) : i \in {i \in DOMAIN data :
                \A j \in DOMAIN data : j > i => ~SameKey(data[j], data[i])}}

\* _store_data: the table after executemany of INSERT OR IGNORE over the
\* bars in order: a bar is inserted unless a row, or an earlier bar, has its key
store_data(rows, data) ==
    rows \cup
    {RowOf(data[i]) : i \in {i \in DOMAIN data :
        /\ \A row \in rows : ~SameKey(row, data[i])
        /\ \A j \in DOMAIN data : j < i => ~SameKey(data[j], data[i])}}

\* The UTC offset of a timezone, in seconds
utc_offset(timezone) ==
    CASE timezone = "UTC" -> 0
      [] timezone = "Asia/Hong_Kong" -> 28800

\* _convert_timezone of a naive datetime to UTC, and of a UTC one to local:
\* datetimes are seconds on the wall clock of their zone.
to_utc(dt, from_tz) == dt - utc_offset(from_tz)
to_local(ts, to_tz) == ts + utc_offset(to_tz)

\* strftime('%Y-%m-%d %H:%M:%S %Z')
datetime_local(ts, timezone) ==
    [wall_clock |-> to_local(ts, timezone),
     zone |-> IF timezone = "UTC" THEN "UTC" ELSE "HKT"]

\* _get_from_db, with the annotation of lines 81-84: the rows of the ticker
\* and frequency in [start, end], read in the order of the primary key
get_from_db(rows, ticker, start_time, end_time, frequency, timezone) ==
    LET stamps == existing_timestamps(rows, ticker, start_time, end_time, frequency)
        row_at(t) == CHOOSE r \in rows :
                        r.ticker = ticker /\ r.frequency = frequency /\ r.timestamp = t
    IN  [i \in DOMAIN stamps |->
            LET row == row_at(stamps[i])
            IN  [ticker |-> row.ticker, timestamp |-> row.timestamp,
                 frequency |-> row.frequency, open |-> row.open, high |-> row.high,
                 low |-> row.low, close |-> row.close, volume |-> row.volume,
                 source |-> row.source, timezone |-> timezone,
                 datetime_local |-> datetime_local(row.timestamp, timezone)]]

\* The upstream providers (yfinance, Binance), as far as the loader sees
\* them.  Bars sit on the grid of the interval, counted from the epoch; in
\* every five hours the third has no bar, the fourth bar has high < low, and
\* the fifth has no volume at the stock provider.
provider_has_bar(t) == (t \div 3600) % 5 # 2

provider_values(source, t) ==
    LET k == (t \div 3600) % 5
    IN  CASE k = 0 -> [open |-> R(10), high |-> R(12), low |-> R(9), close |-> R(11),
                       volume |-> R(100)]
          [] k = 1 -> [open |-> R(11), high |-> R(13), low |-> R(10), close |-> R(12),
                       volume |-> R(200)]
          [] k = 3 -> [open |-> R(12), high |-> R(9), low |-> R(13), close |-> R(11),
                       volume |-> R(300)]
          [] OTHER -> [open |-> R(12), high |-> R(14), low |-> R(11), close |-> R(13),
                       volume |-> IF source = "stock" THEN NaN ELSE R(400)]

\* The timestamps of the provider's bars of an interval for [start, end]:
\* Binance serves the bars that open in the range, yfinance also the bar
\* that is in progress at its start, stamped with the time it opened.
provider_timestamps(source, start_time, end_time, interval) ==
    LET sec == parse_interval(interval).value
        from == IF source = "stock" THEN start_time - (start_time % sec)
                ELSE start_time
    IN  IF end_time < 0 \/ start_time > end_time THEN << >>
        ELSE Ascending({t \in {k * sec : k \in 0..(end_time \div sec)} :
                          t >= from /\ provider_has_bar(t)})

\* The dicts _get_stock_data and _get_crypto_data build from the provider's rows
provider_items(source, ticker, start_time, end_time, frequency, timezone, now) ==
    LET stamps == provider_timestamps(source, start_time, end_time, frequency)
    IN  [i \in DOMAIN stamps |->
            LET v == provider_values(source, stamps[i])
            IN  [ticker |-> ticker, timestamp |-> stamps[i], frequency |-> frequency,
                 open |-> v.open, high |-> v.high, low |-> v.low, close |-> v.close,
                 volume |-> v.volume, source |-> source, timezone |-> timezone,
                 created_at |-> now]]

\* _get_stock_data; `provider` tells for which tickers the provider fails
\* (down) and what the clock reads (now)
get_stock_data(ticker, start_time, end_time, frequency, timezone, provider) ==
    IF ticker \in provider.down
    THEN Returned(<< >>)      \* except Exception: return []
    ELSE Returned(provider_items("stock", ticker, start_time, end_time, frequency,
                                 timezone, provider.now))

\* _get_crypto_data: the provider's error is not caught
get_crypto_data(symbol, start_time, end_time, frequency, timezone, provider) ==
    IF ~Contains(crypto_intervals, frequency) THEN Raised("ValueError")
    ELSE IF symbol \in provider.down THEN Raised("BinanceAPIException")
    ELSE Returned(provider_items("crypto", symbol, start_time, end_time, frequency,
                                 timezone, provider.now))

\* Lines 58-76 of get_historical_data: one missing range is fetched,
\* aggregated, cleaned and stored: [rows, error], error "" when none was raised
fetch_range(rows, ticker, range, frequency, timezone, source, provider) ==
    Only({
        IF ~check_aggregate.ok THEN [rows |-> rows, error |-> check_aggregate.error]
        ELSE Only({
            IF ~fetched.ok THEN [rows |-> rows, error |-> fetched.error]
            ELSE Only({
                [rows |-> store_data(rows, cleaned_data), error |-> ""]
                : cleaned_data \in {data_preprocessing(
                    IF check_aggregate.value[2]
                    THEN aggregate_data(fetched.value, check_aggregate.value[3],
                                        frequency)
                    ELSE fetched.value)}})
            : fetched \in {
                LET api_interval == IF check_aggregate.value[2]
                                    THEN check_aggregate.value[1] ELSE frequency
                IN  IF source = "stock"
                    THEN get_stock_data(ticker, range[1], range[2], api_interval,
                                        timezone, provider)
                    ELSE get_crypto_data(ticker, range[1], range[2], api_interval,
                                         timezone, provider)}})
        : check_aggregate \in {get_best_api_interval(frequency, source)}})

RECURSIVE fetch_ranges(_, _, _, _, _, _, _)
\* The loop over the missing ranges of one ticker
fetch_ranges(rows, ticker, ranges, frequency, timezone, source, provider) ==
    IF ranges = << >> THEN [rows |-> rows, error |-> ""]
    ELSE Only({
            IF r.error # "" THEN r
            ELSE fetch_ranges(r.rows, ticker, Tail(ranges), frequency, timezone,
                              source, provider)
            : r \in {fetch_range(rows, ticker, Head(ranges), frequency, timezone,
                                 source, provider)}})

RECURSIVE load_tickers(_, _, _, _, _, _, _, _, _)
\* The loop over the tickers: [rows, error, historical_data]
load_tickers(rows, tickers, start_ts, end_ts, frequency, timezone, source, provider, historical_data) ==
    IF tickers = << >>
    THEN [rows |-> rows, error |-> "", historical_data |-> historical_data]
    ELSE Only({
            IF ~missing.ok
            THEN [rows |-> rows, error |-> missing.error,
                  historical_data |-> historical_data]
            ELSE Only({
                IF r.error # ""
                THEN [rows |-> r.rows, error |-> r.error,
                      historical_data |-> historical_data]
                ELSE Only({
                    load_tickers(r.rows, Tail(tickers), start_ts, end_ts, frequency,
                                 timezone, source, provider,
                                 historical_data \o ticker_data)
                    : ticker_data \in {get_from_db(r.rows, Head(tickers), start_ts,
                                                   end_ts, frequency, timezone)}})
                : r \in {fetch_ranges(rows, Head(tickers), missing.value, frequency,
                                      timezone, source, provider)}})
            : missing \in {check_exist_data(rows, Head(tickers), start_ts, end_ts,
                                            frequency)}})

\* get_historical_data: [rows, result], the table after the call and what
\* the call returned or raised
get_historical_data(rows, tickers, start_time, end_time, frequency, timezone, source, provider) ==
    IF start_time > end_time
    THEN [rows |-> rows, result |-> Raised("ValueError")]
    ELSE Only({
            [rows |-> r.rows,
             result |-> IF r.error # "" THEN Raised(r.error)
                        ELSE Returned(r.historical_data)]
            : r \in {load_tickers(rows, tickers, to_utc(start_time, timezone),
                                  to_utc(end_time, timezone), frequency, timezone,
                                  source, provider, << >>)}})

----------------------------------------------------------------------------
(* The DataLoader on its own: calls of get_historical_data on a cache that  *)
(* starts empty                                                             *)

Tickers == <<"GOOG", "BTCUSDT">>

\* The tickers argument: one ticker, or both
TickerLists == {<<Tickers[1]>>, Tickers}

Hourly == <<"1", "h">>
TwoHourly == <<"2", "h">>
Weekly == <<"1", "w", "k">>

Frequencies == {Hourly, TwoHourly, Weekly}

Sources == {"stock", "crypto"}

Timezone == "Asia/Hong_Kong"

\* Requested ranges, in UTC seconds: the fourth and fifth hour from the
\* epoch, and from the epoch to half an hour after the fifth bar
Ranges == {<<10800, 14400>>, <<0, 16200>>}

\* Ranges whose gaps are asked for: the second to the fifth hour, and from
\* the epoch to half an hour after the fifth bar
CheckRanges == {<<3600, 14400>>, <<0, 16200>>}

\* The tickers the provider fails for during a call
Outages == {{}, {Tickers[1]}}

LoaderInit ==
    /\ InitData(<<0, 0>>)
    /\ registry = Registry("us_stock")
    /\ fill_on_next_bar = TRUE
    /\ pc = "loader"
    /\ InitRest

\* A call of get_historical_data
GetHistoricalData ==
    /\ pc = "loader"
    /\ call.n < MaxCalls
    /\ \E tickers \in TickerLists, range \in Ranges, frequency \in Frequencies, source \in Sources, down \in Outages :
          \E r \in {get_historical_data(db, tickers, to_local(range[1], Timezone),
                                        to_local(range[2], Timezone), frequency,
                                        Timezone, source,
                                        [down |-> down, now |-> call.n + 1])} :
              /\ db' = r.rows
              /\ call' = [op |-> "get_historical_data", n |-> call.n + 1,
                          tickers |-> tickers, start_ts |-> range[1],
                          end_ts |-> range[2], frequency |-> frequency,
                          source |-> source, down |-> down, result |-> r.result]
    /\ UNCHANGED <<symbols_data, latest_symbols_data, bar_index, registry,
                   pending_orders, event_queue, portfolio, fill_on_next_bar, pc>>

\* A call of _check_exist_data on the cache as it is
CheckExistData ==
    /\ pc = "loader"
    /\ \E ticker \in {Tickers[1]}, range \in CheckRanges, frequency \in Frequencies :
          call' = [op |-> "check_exist_data", n |-> call.n, ticker |-> ticker,
                   start_time |-> range[1], end_time |-> range[2],
                   frequency |-> frequency,
                   result |-> check_exist_data(db, ticker, range[1], range[2],
                                               frequency)]
    /\ UNCHANGED <<symbols_data, latest_symbols_data, bar_index, registry,
                   pending_orders, event_queue, portfolio, fill_on_next_bar, pc, db>>

LoaderNext == GetHistoricalData \/ CheckExistData

LoaderSpec == LoaderInit /\ [][LoaderNext]_vars

----------------------------------------------------------------------------
(* The DataLoader's helpers on their own: one call in a run, on any input   *)

MaxData == 5          \* hours of bars in a list handed to _aggregate_data
MaxGroup == 3         \* aggregate_count

\* Lists of bars to aggregate: what either provider serves for the first
\* hours from the epoch (none, one, ..., the third hour always missing)
AggregateInputs ==
    {provider_items(source, Tickers[1], 0, 3600 * hours - 1, Hourly, Timezone, 1) :
        source \in Sources, hours \in 0..MaxData}

\* Bars to clean: every slot missing (None or NaN), out of range, or in range
DirtyItems ==
    {[ticker |-> Tickers[1], timestamp |-> 3600, frequency |-> Hourly,
      open |-> o, high |-> h, low |-> l, close |-> c, volume |-> v,
      source |-> "stock", timezone |-> Timezone, created_at |-> 1] :
        o \in {Null, NaN, R(0), R(10), R(12)},
        h \in {Null, NaN, R(11), R(9)},
        l \in {Null, NaN, R(9), R(-1)},
        c \in {Null, NaN, R(10), R(12)},
        v \in {Null, NaN, R(-5), R(0), R(100)}}

\* Lists of bars to clean: one bar of any kind, or what a provider serves
PreprocessingInputs == {<<item>> : item \in DirtyItems} \cup AggregateInputs

\* Target intervals: those either source serves, and others it has to
\* aggregate (or cannot parse)
TargetIntervals ==
    {stock_intervals[i] : i \in DOMAIN stock_intervals}
    \cup {crypto_intervals[i] : i \in DOMAIN crypto_intervals}
    \cup {<<"1", "0", "m">>, <<"4", "5", "m">>, <<"3", "h">>, <<"2", "d">>,
          <<"2", "w", "k">>, <<"6", "m", "o">>, <<"w">>, <<"1", "s">>, <<"h">>}

HelperInit ==
    /\ InitData(<<0, 0>>)
    /\ registry = Registry("us_stock")
    /\ fill_on_next_bar = TRUE
    /\ pc = "helper"
    /\ InitRest

\* A call of _aggregate_data
AggregateData ==
    /\ pc = "helper" /\ call = NoCall
    /\ \E data \in AggregateInputs, aggregate_count \in 1..MaxGroup :
          call' = [op |-> "aggregate_data", n |-> 1, data |-> data,
                   aggregate_count |-> aggregate_count,
                   result |-> aggregate_data(data, aggregate_count, TwoHourly)]
    /\ UNCHANGED <<symbols_data, latest_symbols_data, bar_index, registry,
                   pending_orders, event_queue, portfolio, fill_on_next_bar, pc, db>>

\* A call of _data_preprocessing
DataPreprocessing ==
    /\ pc = "helper" /\ call = NoCall
    /\ \E data \in PreprocessingInputs :
          call' = [op |-> "data_preprocessing", n |-> 1, data |-> data,
                   result |-> data_preprocessing(data)]
    /\ UNCHANGED <<symbols_data, latest_symbols_data, bar_index, registry,
                   pending_orders, event_queue, portfolio, fill_on_next_bar, pc, db>>

\* A call of _get_best_api_interval
GetBestApiInterval ==
    /\ pc = "helper" /\ call = NoCall
    /\ \E target_interval \in TargetIntervals, source \in Sources :
          call' = [op |-> "get_best_api_interval", n |-> 1,
                   target_interval |-> target_interval, source |-> source,
                   result |-> get_best_api_interval(target_interval, source)]
    /\ UNCHANGED <<symbols_data, latest_symbols_data, bar_index, registry,
                   pending_orders, event_queue, portfolio, fill_on_next_bar, pc, db>>

HelperNext == AggregateData \/ DataPreprocessing \/ GetBestApiInterval

HelperSpec == HelperInit /\ [][HelperNext]_vars

----------------------------------------------------------------------------
(* Properties *)

\* The time of the Market event of the current tick, and of the tick before.
TickTime == BarTime(bar_index - 1)
PreviousTickTime == BarTime(bar_index - 2)

FillsQueued == {i \in DOMAIN event_queue : event_queue[i].type = "FILL"}

\* C1: in next-bar mode an Order handed to process_order_event during a tick
\* returns no Fill and is left pending; every Fill the portfolio gets to see was
\* ordered during the tick before, and its base price is the open of the bar
\* of its symbol that became visible at the current tick.
C1_NoLookAhead ==
    fill_on_next_bar =>
        /\ call.op = "process_order_event" =>
              /\ call.result = None
              /\ pending_orders # << >>
              /\ pending_orders[Len(pending_orders)] = call.event
        /\ \A i \in DOMAIN pending_orders : pending_orders[i].datetime = TickTime
        /\ \A i \in FillsQueued :
              LET fill_event == event_queue[i]
                  bars == symbols_data[fill_event.symbol]
              IN  /\ bar_index >= 2
                  /\ fill_event.datetime = PreviousTickTime
                  /\ Len(bars) >= bar_index
                  /\ bars[bar_index].timestamp = TickTime
                  /\ fill_event.base_price = bars[bar_index].open

\* C1 happens: process_pending_orders has turned an Order of the tick before
\* into an accepted Fill, at a bar whose open differs from the bar before.
C1_Witness ==
    /\ fill_on_next_bar
    /\ call.op = "update_bars"
    /\ \E i \in DOMAIN call.fills :
          LET fill_event == call.fills[i]
              bars == symbols_data[fill_event.symbol]
          IN  /\ ~fill_event.rejected
              /\ bars[bar_index].open # bars[bar_index - 1].open

\* The holding of a symbol, and its available quantity read as the source
\* reads it: get('available', 0), nothing being held when there is no record.
HoldingOf(pf, symbol) == DictGet(pf.current_holdings, symbol, NewHolding)
AvailableOf(pf, symbol) == HoldingOf(pf, symbol).available

\* The step is a call of process_fill_event with a Fill that is not rejected.
AcceptedFillStep ==
    /\ call' # call
    /\ call'.op = "process_fill_event"
    /\ ~call'.event.rejected

\* The Fill of the step is against the position held before it.
Against(holding, fill_event) ==
    \/ holding.quantity > 0 /\ fill_event.direction = "SELL"
    \/ holding.quantity < 0 /\ fill_event.direction = "BUY"

\* C2: for every symbol held, 0 <= available <= |quantity|.
C2_Availability ==
    \A symbol \in DOMAIN portfolio.current_holdings :
        LET holding == portfolio.current_holdings[symbol]
        IN  /\ 0 <= holding.available
            /\ holding.available <= Abs(holding.quantity)

\* Realized P&L of closing `size` units of a position held at avg_cost, at
\* `price` with `commission` spread over the `size` units.
ClosedLegPnl(holding, size, price, commission, multiplier) ==
    LET per_share == RDiv(commission, R(size))
    IN  IF holding.quantity > 0
        THEN RMul(RMul(R(size), RSub(RSub(price, per_share), holding.avg_cost)),
                  R(multiplier))
        ELSE RMul(RMul(R(size), RSub(holding.avg_cost, RAdd(price, per_share))),
                  R(multiplier))

\* C3: a Fill against the position and smaller than it moves the quantity
\* toward zero by its size, leaves avg_cost alone, and records (and adds to
\* total_realized_pnl) |dq| * ((price - c/|dq|) - avg_cost) * m on a long
\* position, |dq| * (avg_cost - (price + c/|dq|)) * m on a short one.
C3_Reduce ==
    [][AcceptedFillStep =>
        LET fill_event == call'.event
            symbol == fill_event.symbol
            before == HoldingOf(portfolio, symbol)
            after == HoldingOf(portfolio', symbol)
            dq == fill_event.quantity
            expected == ClosedLegPnl(before, dq, fill_event.fill_price,
                                     fill_event.commission,
                                     registry[symbol].contract_multiplier)
        IN  (Against(before, fill_event) /\ Abs(before.quantity) > dq) =>
                /\ after.quantity = IF before.quantity > 0
                                    THEN before.quantity - dq
                                    ELSE before.quantity + dq
                /\ after.avg_cost = before.avg_cost
                /\ portfolio'.positions[Len(portfolio'.positions)].realized_pnl
                       = expected
                /\ portfolio'.total_realized_pnl
                       = RAdd(portfolio.total_realized_pnl, expected)
    ]_vars

\* C4: a Fill against the position q and at least as large closes it and
\* opens the remainder: the ending quantity is q + dq, a remainder is held at
\* the fill price with the commission folded in, and a commission-free Fill
\* realizes the P&L of the closed leg only, |q| units against the old avg_cost
\* (long 10 at 100, SELL 15 at 110: +100, short 5 at 110).
C4_Flip ==
    [][AcceptedFillStep =>
        LET fill_event == call'.event
            symbol == fill_event.symbol
            before == HoldingOf(portfolio, symbol)
            after == HoldingOf(portfolio', symbol)
            dq == fill_event.quantity
            remainder == dq - Abs(before.quantity)
            per_share == RDiv(fill_event.commission, R(remainder))
            closed == ClosedLegPnl(before, Abs(before.quantity),
                                   fill_event.fill_price, Zero,
                                   registry[symbol].contract_multiplier)
        IN  (Against(before, fill_event) /\ dq >= Abs(before.quantity)) =>
                /\ after.quantity = IF before.quantity > 0
                                    THEN before.quantity - dq
                                    ELSE before.quantity + dq
                /\ remainder > 0 =>
                      after.avg_cost = IF fill_event.direction = "BUY"
                                       THEN RAdd(fill_event.fill_price, per_share)
                                       ELSE RSub(fill_event.fill_price, per_share)
                /\ fill_event.commission = Zero =>
                      portfolio'.positions[Len(portfolio'.positions)].realized_pnl
                          = closed
    ]_vars

\* A commission-free Fill of `size` at `price`, dated at the current tick.
FreeFill(symbol, direction, size, price) ==
    FillEvent(symbol, registry[symbol].market_rule.market_name, size, direction,
              R(price), TickTime, FALSE, Zero, R(price))

\* What the flip law compares of a portfolio, for one symbol.
EndingState(pf, symbol) ==
    [quantity |-> HoldingOf(pf, symbol).quantity,
     avg_cost |-> HoldingOf(pf, symbol).avg_cost,
     available |-> AvailableOf(pf, symbol),
     current_cash |-> pf.current_cash,
     margin_used |-> DictGet(pf.margin_used, symbol, Zero),
     total_realized_pnl |-> pf.total_realized_pnl]

FlipPrices == {10, 11}

\* C5: from any holding q # 0, one commission-free Fill of size |q| + r against
\* the position ends in the same quantity, avg_cost, available, cash, margin
\* and total realized P&L as a Fill of size |q| followed by a Fill of size r at
\* the same price.
C5_FlipLaw ==
    \A symbol \in DOMAIN portfolio.current_holdings :
        \A r \in FillQuantities(symbol), price \in FlipPrices :
            LET q == portfolio.current_holdings[symbol].quantity
                direction == IF q > 0 THEN "SELL" ELSE "BUY"
                one == process_fill_event(portfolio,
                           FreeFill(symbol, direction, Abs(q) + r, price))
                two == process_fill_event(
                           process_fill_event(portfolio,
                               FreeFill(symbol, direction, Abs(q), price)),
                           FreeFill(symbol, direction, r, price))
            IN  (q # 0 /\ bar_index >= 1) =>
                    EndingState(one, symbol) = EndingState(two, symbol)

\* The fills so far are commission-free fills of one symbol in a T+0 market
\* where margin is the notional and the multiplier is 1.
CashEquityRun(symbol) ==
    /\ registry[symbol].kind = "Stock"
    /\ registry[symbol].market_rule.settlement_days = 0
    /\ \A i \in DOMAIN portfolio.positions :
          /\ portfolio.positions[i].symbol = symbol
          /\ portfolio.positions[i].commission = Zero

\* C6: in such a run, after every fill, current_cash + quantity * fill_price is
\* initial_capital plus the realized P&L so far; after buying n at p1 and
\* selling the n at p2, current_cash is initial_capital + n * (p2 - p1).
C6_CashConservation ==
    \A symbol \in SymbolSet :
        (CashEquityRun(symbol) /\ call.op = "process_fill_event"
                               /\ ~call.event.rejected) =>
            LET positions == portfolio.positions
                last == positions[Len(positions)]
                quantity == HoldingOf(portfolio, symbol).quantity
            IN  /\ RAdd(portfolio.current_cash,
                        RMul(R(quantity), last.fill_price))
                      = RAdd(portfolio.initial_capital,
                             portfolio.total_realized_pnl)
                /\ (/\ Len(positions) = 2
                    /\ positions[1].direction = "BUY"
                    /\ positions[2].direction = "SELL"
                    /\ positions[1].quantity = positions[2].quantity) =>
                       portfolio.current_cash
                           = RAdd(portfolio.initial_capital,
                                  RMul(R(positions[1].quantity),
                                       RSub(positions[2].fill_price,
                                            positions[1].fill_price)))

\* The accepted fills of a symbol so far, in order (Portfolio.positions).
FillsOf(pf, symbol) == SelectSeq(pf.positions, LAMBDA p : p.symbol = symbol)

RECURSIVE SignedQuantity(_)
SignedQuantity(fills) ==
    IF fills = << >> THEN 0
    ELSE (IF Head(fills).direction = "BUY" THEN Head(fills).quantity
          ELSE -Head(fills).quantity) + SignedQuantity(Tail(fills))

RECURSIVE FoldedCost(_)
\* sum of (p_i + c_i/n_i) * n_i over BUY fills, (p_i - c_i/n_i) * n_i over SELL fills
FoldedCost(fills) ==
    IF fills = << >> THEN Zero
    ELSE LET f == Head(fills)
             per_share == RDiv(f.commission, R(f.quantity))
             leg == IF f.direction = "BUY" THEN RAdd(f.fill_price, per_share)
                    ELSE RSub(f.fill_price, per_share)
         IN  RAdd(RMul(leg, R(f.quantity)), FoldedCost(Tail(fills)))

\* The fills after the first k are a series in one direction from a flat position.
SameDirectionRun(fills, k) ==
    /\ SignedQuantity(SubSeq(fills, 1, k)) = 0
    /\ \A i \in (k + 1)..Len(fills) : fills[i].direction = fills[k + 1].direction

\* C7: after a series of same-direction fills from a flat position, |quantity|
\* is the sum of the sizes and avg_cost * |quantity| is the sum of
\* (p_i + c_i/n_i) * n_i for a long, (p_i - c_i/n_i) * n_i for a short position.
C7_WeightedAverageCost ==
    \A symbol \in DOMAIN portfolio.current_holdings :
        LET fills == FillsOf(portfolio, symbol)
            holding == portfolio.current_holdings[symbol]
        IN  \A k \in 0..(Len(fills) - 1) :
                SameDirectionRun(fills, k) =>
                    LET run == SubSeq(fills, k + 1, Len(fills))
                    IN  /\ Abs(holding.quantity) = Abs(SignedQuantity(run))
                        /\ (holding.quantity > 0) = (run[1].direction = "BUY")
                        /\ RMul(holding.avg_cost, R(Abs(holding.quantity)))
                              = FoldedCost(run)

\* C7 happens: a position built by two fills in one direction, of different
\* sizes and prices, one of them with a commission.
C7_Witness ==
    \E symbol \in DOMAIN portfolio.current_holdings :
        LET fills == FillsOf(portfolio, symbol)
        IN  /\ Len(fills) >= 2
            /\ SameDirectionRun(fills, Len(fills) - 2)
            /\ fills[Len(fills)].direction = fills[Len(fills) - 1].direction
            /\ fills[Len(fills)].direction = "SELL"
            /\ fills[Len(fills)].quantity # fills[Len(fills) - 1].quantity
            /\ fills[Len(fills)].fill_price # fills[Len(fills) - 1].fill_price
            /\ fills[Len(fills)].commission # Zero

\* C8: where settlement_days > 0, process_signal_event returns no Order for a
\* SHORT signal whose lot-normalized quantity exceeds the available quantity
\* of the symbol, which is 0 when the portfolio has no record of it.
C8_SellRefusal ==
    (call.op = "process_signal_event" /\ call.event.signal_type = "SHORT") =>
        LET symbol == call.event.symbol
            market_rule == registry[symbol].market_rule
            quantity == normalize_quantity(market_rule, PyInt(call.event.strength))
        IN  (market_rule.settlement_days > 0
                /\ quantity > AvailableOf(portfolio, symbol)) =>
                call.result = None

RECURSIVE SumQuantity(_)
SumQuantity(entries) ==
    IF entries = << >> THEN 0
    ELSE Head(entries).quantity + SumQuantity(Tail(entries))

\* N calendar days after the purchase have passed at time t.
DueAt(settlement, t) ==
    t >= settlement.buy_time + settlement.settlement_days * MinutesPerDay

\* The pending settlements of a symbol that are due at time t.
DueOf(pf, symbol, t) ==
    SelectSeq(pf.pending_settlements,
              LAMBDA e : e.symbol = symbol /\ DueAt(e, t))

BoughtOf(pf, symbol) ==
    SumQuantity(SelectSeq(pf.positions,
                          LAMBDA p : p.symbol = symbol /\ p.direction = "BUY"))
SoldOf(pf, symbol) ==
    SumQuantity(SelectSeq(pf.positions,
                          LAMBDA p : p.symbol = symbol /\ p.direction = "SELL"))
PendingOf(pf, symbol) ==
    SumQuantity(SelectSeq(pf.pending_settlements, LAMBDA e : e.symbol = symbol))

\* What a call of process_fill_event does to the pending settlements.
C9_Created ==
    (call' # call /\ call'.op = "process_fill_event") =>
        LET fill_event == call'.event
            days == registry[fill_event.symbol].market_rule.settlement_days
        IN  IF ~fill_event.rejected /\ fill_event.direction = "BUY" /\ days > 0
            THEN portfolio'.pending_settlements
                    = Append(portfolio.pending_settlements,
                             [symbol |-> fill_event.symbol,
                              quantity |-> fill_event.quantity,
                              buy_time |-> fill_event.datetime,
                              settlement_days |-> days])
            ELSE portfolio'.pending_settlements = portfolio.pending_settlements

\* What a Market tick at time t does to them.
C9_Released ==
    (call' # call /\ call'.op = "update_timeindex") =>
        LET t == call'.event.datetime
        IN  /\ portfolio'.pending_settlements
                  = SelectSeq(portfolio.pending_settlements,
                              LAMBDA e : ~DueAt(e, t))
            /\ \A symbol \in SymbolSet :
                  AvailableOf(portfolio', symbol)
                      = AvailableOf(portfolio, symbol)
                        + SumQuantity(DueOf(portfolio, symbol, t))

\* Every unit bought is pending, or was released once and is available or sold.
C9_Conserved ==
    \A symbol \in SymbolSet :
        registry[symbol].market_rule.settlement_days > 0 =>
            BoughtOf(portfolio, symbol)
                = PendingOf(portfolio, symbol) + AvailableOf(portfolio, symbol)
                  + SoldOf(portfolio, symbol)

\* C9: with settlement_days = N > 0 an accepted BUY fill appends exactly one
\* pending settlement of its quantity (no other fill touches the list); a
\* Market tick earlier than buy_time + N days keeps the entry, the first tick
\* at or after it removes the entry and adds its quantity to the symbol's
\* available; no unit is released twice or lost.
C9_Lifecycle == [][C9_Created /\ C9_Released]_vars /\ []C9_Conserved

\* C9 happens: a purchase stayed pending over a Market tick and was released
\* by the current one.
C9_Witness ==
    /\ call.op = "update_timeindex"
    /\ bar_index >= 3
    /\ portfolio.pending_settlements = << >>
    /\ \E i \in DOMAIN portfolio.positions :
          LET p == portfolio.positions[i]
              days == registry[p.symbol].market_rule.settlement_days
          IN  /\ p.direction = "BUY" /\ days > 0
              /\ p.time < PreviousTickTime
              /\ PreviousTickTime < p.time + days * MinutesPerDay
              /\ p.time + days * MinutesPerDay <= TickTime
              /\ AvailableOf(portfolio, p.symbol) >= p.quantity

\* C10: where settlement_days > 0, available changes only by growing by the
\* quantities of the settlements that mature in update_timeindex and by
\* shrinking by the quantity of an accepted SELL fill; BUY fills, rejected
\* fills, signals and orders leave it unchanged.
C10_AvailableFrame ==
    [][\A symbol \in SymbolSet :
          registry[symbol].market_rule.settlement_days > 0 =>
              LET change == AvailableOf(portfolio', symbol)
                            - AvailableOf(portfolio, symbol)
              IN  IF call' # call /\ call'.op = "update_timeindex"
                  THEN change = SumQuantity(DueOf(portfolio, symbol,
                                                  call'.event.datetime))
                  ELSE IF AcceptedFillStep /\ call'.event.symbol = symbol
                          /\ call'.event.direction = "SELL"
                  THEN change = -call'.event.quantity
                  ELSE change = 0
    ]_vars

\* C10 happens: shares bought and settled are sold by an accepted SELL fill.
C10_Witness ==
    /\ call.op = "process_fill_event"
    /\ ~call.event.rejected
    /\ call.event.direction = "SELL"
    /\ registry[call.event.symbol].market_rule.settlement_days > 0
    /\ BoughtOf(portfolio, call.event.symbol) > 0
    /\ PendingOf(portfolio, call.event.symbol) = 0
    /\ AvailableOf(portfolio, call.event.symbol) >= 0

\* C11: in a market with settlement_days = 0 no pending settlement is ever
\* created, and after every accepted fill (hence in every state, nothing else
\* writing either field) the symbol's available equals its quantity.
C11_T0Availability ==
    \A symbol \in SymbolSet :
        registry[symbol].market_rule.settlement_days = 0 =>
            /\ \A i \in DOMAIN portfolio.pending_settlements :
                  portfolio.pending_settlements[i].symbol # symbol
            /\ symbol \in DOMAIN portfolio.current_holdings =>
                  portfolio.current_holdings[symbol].available
                      = portfolio.current_holdings[symbol].quantity

\* C11 happens: in a T+0 market a purchase was followed by a sale.
C11_Witness ==
    /\ call.op = "process_fill_event"
    /\ ~call.event.rejected
    /\ call.event.direction = "SELL"
    /\ registry[call.event.symbol].market_rule.settlement_days = 0
    /\ BoughtOf(portfolio, call.event.symbol) > 0
    /\ HoldingOf(portfolio, call.event.symbol).quantity # 0
    /\ AvailableOf(portfolio, call.event.symbol)
          = HoldingOf(portfolio, call.event.symbol).quantity

\* The Market event is the first event dispatched in a tick: it heads the queue
\* the drain starts from.
MarketFirst ==
    (call.op = "update_bars" /\ pc = "drain") =>
        Head(event_queue).type = "MARKET"

\* update_timeindex has run for the current tick whenever a Fill reaches
\* process_fill_event: there is a snapshot for each tick so far.
SnapshotBeforeFills ==
    call.op = "process_fill_event" =>
        /\ Len(portfolio.all_holdings) = bar_index
        /\ portfolio.all_holdings[bar_index].time = TickTime

\* A step dispatches the head of the queue, if it dispatches, and enqueues
\* behind what was waiting.
DispatchedInOrder ==
    LET waiting == IF pc = "drain" THEN Tail(event_queue) ELSE event_queue
    IN  /\ Len(event_queue') >= Len(waiting)
        /\ SubSeq(event_queue', 1, Len(waiting)) = waiting

\* C12: in every tick the Market event is dispatched first, update_timeindex
\* for the tick runs before process_fill_event is called for any Fill of the
\* previous tick's orders, and events are dispatched in the order enqueued.
C12_TickOrdering ==
    /\ [](MarketFirst /\ SnapshotBeforeFills)
    /\ [][DispatchedInOrder]_vars

\* The limit of a China A symbol: 5% for ST and *ST, 20% for the 688 and 300
\* prefixes, 10% on the main board.
LimitOf(symbol) ==
    IF StartsWith(symbol, "ST") \/ StartsWith(symbol, "*ST") THEN <<5, 100>>
    ELSE IF StartsWith(symbol, "688") \/ StartsWith(symbol, "300") THEN <<20, 100>>
    ELSE <<10, 100>>

\* The prev_close _execute_order used for a Fill made at the current bar: the
\* close of the bar before it, or the base price at the first bar.
PrevCloseOf(fill_event) ==
    IF bar_index >= 2
    THEN symbols_data[fill_event.symbol][bar_index - 1].close
    ELSE fill_event.base_price

\* C13: under the China A rule with prev_close > 0, the final fill_price of
\* every Fill that is not rejected satisfies
\* |fill_price - prev_close| / prev_close <= L, L the symbol's limit.
C13_PriceLimitClamp ==
    \A i \in FillsQueued :
        LET fill_event == event_queue[i]
            prev_close == PrevCloseOf(fill_event)
        IN  (/\ registry[fill_event.symbol].market_rule.market_name = "CHINA_A"
             /\ ~fill_event.rejected
             /\ RLt(Zero, prev_close)) =>
                RLe(RAbs(RSub(fill_event.fill_price, prev_close)),
                    RMul(LimitOf(fill_event.symbol), prev_close))

\* The current tick is the first one at or after the instrument's expiry.
FirstExpiredTick(instrument) ==
    /\ is_expired(instrument, TickTime)
    /\ bar_index >= 2 => ~is_expired(instrument, PreviousTickTime)

\* An Order on the queue that closes the holding.
ClosingOrderQueued(symbol, holding) ==
    \E i \in DOMAIN event_queue :
        /\ event_queue[i].type = "ORDER"
        /\ event_queue[i].symbol = symbol
        /\ event_queue[i].direction = (IF holding.quantity > 0 THEN "SELL" ELSE "BUY")
        /\ event_queue[i].quantity = Abs(holding.quantity)

\* C14: on the first Market tick at or after an instrument's expiry on which
\* the portfolio holds a nonzero quantity of it, the dispatch of the Market
\* event enqueues a closing Order (SELL if long, BUY if short, size |quantity|).
\* Stated for the first tick at or after the expiry, where no earlier sweep can
\* have marked the symbol expired.
C14_ExpirationSweep ==
    call.op = "update_timeindex" =>
        \A symbol \in DOMAIN portfolio.current_holdings :
            LET holding == portfolio.current_holdings[symbol]
            IN  (FirstExpiredTick(registry[symbol]) /\ holding.quantity # 0) =>
                    ClosingOrderQueued(symbol, holding)

RECURSIVE RSum(_, _)
\* The sum of the rationals f[s] over the symbols s of S.
RSum(f, S) ==
    IF S = {} THEN Zero
    ELSE LET s == CHOOSE x \in S : TRUE
         IN  RAdd(f[s], RSum(f, S \ {s}))

\* The price the next mark-to-market starts from, read as the source reads it:
\* position.get('last_settle_price', avg_cost).
SettlePriceOf(holding) ==
    IF holding.last_settle_price = NoPrice THEN holding.avg_cost
    ELSE holding.last_settle_price

\* The symbol is marked to market at tick k: daily settled, held, with a bar.
MarkedAt(pf, symbol, k) ==
    /\ registry[symbol].market_rule.requires_daily_settlement
    /\ HoldingOf(pf, symbol).quantity # 0
    /\ Len(symbols_data[symbol]) >= k

\* (to - from) * quantity * multiplier
MtmGain(pf, symbol, from, to) ==
    RMul(RMul(RSub(to, from), R(HoldingOf(pf, symbol).quantity)),
         R(registry[symbol].contract_multiplier))

\* What one update_timeindex at tick k does to cash and to the settle prices.
C15_Step ==
    (call' # call /\ call'.op = "update_timeindex") =>
        LET k == bar_index'
            gain == [s \in SymbolSet |->
                       IF MarkedAt(portfolio, s, k)
                       THEN MtmGain(portfolio, s,
                                    SettlePriceOf(HoldingOf(portfolio, s)),
                                    symbols_data[s][k].close)
                       ELSE Zero]
        IN  /\ portfolio'.current_cash
                  = RAdd(portfolio.current_cash, RSum(gain, SymbolSet))
            /\ \A s \in SymbolSet :
                  MarkedAt(portfolio, s, k) =>
                      HoldingOf(portfolio', s).last_settle_price
                          = symbols_data[s][k].close
            /\ (\A s \in SymbolSet :
                   ~registry[s].market_rule.requires_daily_settlement) =>
                  portfolio'.current_cash = portfolio.current_cash

\* No fill was processed from tick j on.
NoFillsSince(j) ==
    \A i \in DOMAIN portfolio.positions : portfolio.positions[i].time < BarTime(j - 1)

\* The last tick up to k at which the symbol has a bar.
LastBarUpTo(symbol, k) ==
    IF Len(symbols_data[symbol]) < k THEN Len(symbols_data[symbol]) ELSE k

\* Over ticks j+1..k without fills the cash change is the sum, over the symbols
\* marked at tick j, of (last close - close at j) * quantity * multiplier.
C15_Telescoped ==
    \A j \in 1..Len(portfolio.all_holdings) :
        NoFillsSince(j) =>
            LET k == Len(portfolio.all_holdings)
                gain == [s \in SymbolSet |->
                           IF MarkedAt(portfolio, s, j)
                           THEN MtmGain(portfolio, s, symbols_data[s][j].close,
                                        symbols_data[s][LastBarUpTo(s, k)].close)
                           ELSE Zero]
            IN  portfolio.all_holdings[k].cash
                    = RAdd(portfolio.all_holdings[j].cash, RSum(gain, SymbolSet))

\* C15: for a held instrument that requires daily settlement each
\* update_timeindex adds (close - last_settle_price) * quantity * multiplier to
\* current_cash and sets last_settle_price = close, so that over consecutive
\* ticks without fills the cash change telescopes; where no instrument
\* requires daily settlement update_timeindex leaves current_cash unchanged.
C15_MarkToMarket == [][C15_Step]_vars /\ []C15_Telescoped

\* C15 happens: a futures position was marked at three ticks in a row with no
\* fill in between, and cash moved over the last two.
C15_Witness ==
    /\ call.op = "update_timeindex"
    /\ bar_index >= 3
    /\ NoFillsSince(bar_index - 2)
    /\ \E s \in SymbolSet : MarkedAt(portfolio, s, bar_index)
    /\ portfolio.all_holdings[bar_index].cash
          # portfolio.all_holdings[bar_index - 2].cash

\* C16: an accepted BUY fill decreases current_cash by margin + commission and
\* increases margin_used[symbol] by margin; an accepted SELL fill against a
\* position of size |q| releases margin_used[symbol] * (qty / |q|) and
\* increases current_cash by released - commission; with no position nothing
\* is released, and the commission is debited all the same.
C16_CashAndMargin ==
    [][AcceptedFillStep =>
        LET fill_event == call'.event
            symbol == fill_event.symbol
            q == HoldingOf(portfolio, symbol).quantity
            margin == calculate_margin(symbol, fill_event.quantity,
                                       fill_event.fill_price)
            used == DictGet(portfolio.margin_used, symbol, Zero)
            used_after == DictGet(portfolio'.margin_used, symbol, Zero)
            released == IF q = 0 THEN Zero
                        ELSE RMul(used, RNorm(fill_event.quantity, Abs(q)))
        IN  IF fill_event.direction = "BUY"
            THEN /\ portfolio'.current_cash
                       = RSub(portfolio.current_cash,
                              RAdd(margin, fill_event.commission))
                 /\ used_after = RAdd(used, margin)
            ELSE /\ portfolio'.current_cash
                       = RAdd(portfolio.current_cash,
                              RSub(released, fill_event.commission))
                 /\ used_after = RSub(used, released)
    ]_vars

\* C17: process_fill_event called with a rejected Fill leaves the portfolio as
\* it was: current_holdings, current_cash, margin_used, pending_settlements,
\* total_realized_pnl, positions and all_holdings.
C17_RejectedIgnored ==
    [][(call' # call /\ call'.op = "process_fill_event" /\ call'.event.rejected) =>
          /\ portfolio'.current_holdings = portfolio.current_holdings
          /\ portfolio'.current_cash = portfolio.current_cash
          /\ portfolio'.margin_used = portfolio.margin_used
          /\ portfolio'.pending_settlements = portfolio.pending_settlements
          /\ portfolio'.total_realized_pnl = portfolio.total_realized_pnl
          /\ portfolio'.positions = portfolio.positions
          /\ portfolio'.all_holdings = portfolio.all_holdings
    ]_vars

\* C17 happens: the execution handler rejected an order, and its Fill reached
\* a portfolio that holds the symbol.
C17_Witness ==
    /\ call.op = "process_fill_event"
    /\ call.event.rejected
    /\ HoldingOf(portfolio, call.event.symbol).quantity # 0
    /\ portfolio.positions # << >>

\* The symbol has a bar at the current index.
HasBarNow(symbol) == bar_index >= 1 /\ Len(symbols_data[symbol]) >= bar_index

\* The open of the symbol's current bar: the unadjusted base price.
BasePriceNow(symbol) == symbols_data[symbol][bar_index].open

\* The orders of a queue that have a bar to be executed at.
ExecutedOrders(orders) == SelectSeq(orders, LAMBDA o : HasBarNow(o.symbol))

\* The market rule's validate_order fails for the order at the current bar.
RuleFails(order_event) ==
    ~validate_order(registry[order_event.symbol].market_rule, order_event.symbol,
                    order_event.quantity, BasePriceNow(order_event.symbol),
                    order_event.direction, order_event.datetime).ok

\* The Fill is the order's rejection: rejected, free, at the base price.
RejectionOf(order_event, fill_event) ==
    /\ fill_event # None
    /\ fill_event.rejected
    /\ fill_event.commission = Zero
    /\ fill_event.fill_price = BasePriceNow(order_event.symbol)
    /\ fill_event.symbol = order_event.symbol
    /\ fill_event.quantity = order_event.quantity
    /\ fill_event.direction = order_event.direction

\* Every order the rule refuses, executed at once or from the pending queue,
\* yields its rejection.
C18_Rejection ==
    /\ (/\ call.op = "process_order_event" /\ ~fill_on_next_bar
        /\ HasBarNow(call.event.symbol) /\ RuleFails(call.event)) =>
            RejectionOf(call.event, call.result)
    /\ call.op = "update_bars" =>
            LET executed == ExecutedOrders(call.orders)
            IN  /\ Len(call.fills) = Len(executed)
                /\ \A i \in DOMAIN executed :
                      RuleFails(executed[i]) =>
                          RejectionOf(executed[i], call.fills[i])

\* Neither the execution of a refused order nor the dispatch of its Fill
\* changes the execution handler or the portfolio.
C18_Frame ==
    /\ (/\ call' # call /\ call'.op = "process_order_event"
        /\ call'.result # None /\ call'.result.rejected) =>
            UNCHANGED <<pending_orders, fill_on_next_bar, portfolio>>
    /\ (/\ call' # call /\ call'.op = "process_fill_event"
        /\ call'.event.rejected) =>
            UNCHANGED <<pending_orders, fill_on_next_bar, portfolio>>

\* C18: when validate_order fails for an order being executed, _execute_order
\* returns a Fill with rejected = true, commission = 0 and fill_price equal to
\* the unadjusted base price, and that order changes no ExecutionHandler or
\* Portfolio state.
C18_RuleRejection == []C18_Rejection /\ [][C18_Frame]_vars

\* C18 happens: an order from the pending queue was refused by the rule at a
\* bar where the price limit or the slippage would have moved the price.
C18_Witness ==
    /\ call.op = "update_bars"
    /\ \E i \in DOMAIN call.fills :
          /\ call.fills[i].rejected
          /\ execute_order_validating_late(latest_symbols_data, bar_index,
                                           ExecutedOrders(call.orders)[i]).fill_price
                # call.fills[i].fill_price

\* The Fill is the result of executing the order, accepted or rejected.
FillOf(order_event, fill_event) ==
    /\ fill_event.type = "FILL"
    /\ fill_event.symbol = order_event.symbol
    /\ fill_event.quantity = order_event.quantity
    /\ fill_event.direction = order_event.direction
    /\ fill_event.datetime = order_event.datetime

\* C19: process_pending_orders executes every queued order once, in the order
\* queued, returns the Fills in that order (one for each order whose symbol
\* has a bar), and leaves pending_orders empty; an order still queued was
\* handed in during the current tick.
C19_PendingDrain ==
    /\ call.op = "process_pending_orders" =>
          LET executed == ExecutedOrders(call.orders)
          IN  /\ pending_orders = << >>
              /\ Len(call.fills) = Len(executed)
              /\ \A i \in DOMAIN executed : FillOf(executed[i], call.fills[i])
    /\ \A i \in DOMAIN pending_orders : pending_orders[i].datetime = TickTime

\* C19 happens: two different orders on different symbols were queued and
\* executed, the first refused by the rule and the second accepted.
C19_Witness ==
    /\ call.op = "process_pending_orders"
    /\ Len(call.orders) = 2
    /\ Len(call.fills) = 2
    /\ call.orders[1].symbol # call.orders[2].symbol
    /\ call.orders[1].quantity # call.orders[2].quantity
    /\ call.fills[1].rejected
    /\ ~call.fills[2].rejected

\* The orders of a queue whose symbol has no bar at the current index.
DroppedOrders(orders) == SelectSeq(orders, LAMBDA o : ~HasBarNow(o.symbol))

\* C20: an order executed while its symbol has no latest bar yields no Fill,
\* is removed from the pending queue and not retried, and the run continues
\* without error.
C20_NoBarNoFill ==
    (call.op = "update_bars" /\ DroppedOrders(call.orders) # << >>) =>
        /\ Len(call.fills) = Len(ExecutedOrders(call.orders))
        /\ \A i \in DOMAIN call.fills :
              FillOf(ExecutedOrders(call.orders)[i], call.fills[i])
        /\ pending_orders = << >>
        /\ pc # "crashed"

\* The same for an order on a symbol other than the one the engine reads the
\* Market event's time from.
NoBarNoFillElsewhere ==
    (/\ call.op = "update_bars"
     /\ DroppedOrders(call.orders) # << >>
     /\ \A i \in DOMAIN call.orders : call.orders[i].symbol # Symbols[1]) =>
        /\ call.fills = << >>
        /\ pending_orders = << >>
        /\ pc = "drain"

\* Events are dispatched in the order they were enqueued.
FifoDispatch == [][DispatchedInOrder]_vars

\* The direction of the Order that closes a position.
ClosingDirection(holding) == IF holding.quantity > 0 THEN "SELL" ELSE "BUY"

\* An Order emitted for a LONG signal is a BUY, one for a SHORT signal a SELL.
LongShortMapping ==
    (call.op = "process_signal_event" /\ call.result # None) =>
        /\ call.result.type = "ORDER"
        /\ call.result.symbol = call.event.symbol
        /\ call.event.signal_type = "LONG" => call.result.direction = "BUY"
        /\ call.event.signal_type = "SHORT" => call.result.direction = "SELL"

\* An EXIT signal on a held symbol yields the Order that closes the position.
ExitCloses ==
    (/\ call.op = "process_signal_event"
     /\ call.event.signal_type = "EXIT"
     /\ HoldingOf(portfolio, call.event.symbol).quantity # 0) =>
        /\ call.result # None
        /\ call.result.direction =
              ClosingDirection(HoldingOf(portfolio, call.event.symbol))

\* The whole part of a non-negative value, rounded down.
RFloor(a) == a[1] \div a[2]

\* floor(strength / lot_size) * lot_size under the symbol's market rule
LotsOf(signal_event) ==
    LET lot_size == registry[signal_event.symbol].market_rule.lot_size
    IN  RFloor(RDiv(signal_event.strength, R(lot_size))) * lot_size

\* C22: the quantity of every Order emitted by process_signal_event equals
\* floor(strength / lot_size) * lot_size of the instrument's market rule, and a
\* signal whose normalized quantity is 0 yields no Order.
C22_LotNormalization ==
    call.op = "process_signal_event" =>
        /\ call.result # None => call.result.quantity = LotsOf(call.event)
        /\ LotsOf(call.event) = 0 => call.result = None

\* C22 happens: a fractional strength above two lots of 100 became an Order
\* of two lots.
C22_Witness ==
    /\ call.op = "process_signal_event"
    /\ call.result # None
    /\ registry[call.event.symbol].market_rule.lot_size = 100
    /\ RLt(R(call.result.quantity), call.event.strength)
    /\ call.result.quantity = 200

\* A strength below one lot was dropped.
BelowLotDropped ==
    /\ call.op = "process_signal_event"
    /\ call.event.signal_type \in {"LONG", "SHORT"}
    /\ RLt(Zero, call.event.strength)
    /\ LotsOf(call.event) = 0
    /\ call.result = None
    /\ pc # "crashed"

\* The margin the signal's normalized quantity requires at the latest close of
\* its symbol.
RequiredMargin(signal_event) ==
    calculate_margin(signal_event.symbol, LotsOf(signal_event),
                     get_latest_bar(signal_event.symbol).close)

\* The signal is one whose required margin exceeds the cash at hand.
Unaffordable(signal_event) ==
    /\ signal_event.signal_type \in {"LONG", "SHORT"}
    /\ get_latest_bar(signal_event.symbol) # None
    /\ RLt(portfolio.current_cash, RequiredMargin(signal_event))

\* C23: process_signal_event emits no Order, and changes no portfolio state,
\* whenever the margin required for the normalized quantity at the latest
\* close exceeds current_cash.
C23_InsufficientCash ==
    [][(/\ call' # call
        /\ call'.op = "process_signal_event"
        /\ Unaffordable(call'.event)) =>
          /\ call'.result = None
          /\ portfolio' = portfolio
    ]_vars

\* C23 happens: a signal for a whole number of lots that the symbol's rule
\* would not refuse was dropped for want of cash.
C23_Witness ==
    /\ call.op = "process_signal_event"
    /\ Unaffordable(call.event)
    /\ call.result = None
    /\ LotsOf(call.event) > 0
    /\ process_signal_event_unfunded(portfolio, call.event,
                                     get_latest_bar(call.event.symbol)) # None

\* The Market events waiting on the queue.
MarketsQueued == {i \in DOMAIN event_queue : event_queue[i].type = "MARKET"}

\* A tick on which update_bars returned true put exactly one Market event on
\* the queue.
OneMarketPerTick == call.op = "update_bars" => Cardinality(MarketsQueued) = 1

\* Between ticks, and at the end of the run, there is one snapshot per tick.
OneSnapshotPerTick ==
    pc \in {"advance", "done"} => Len(portfolio.all_holdings) = bar_index

\* C24: every tick on which update_bars returns true results in exactly one
\* Market event and exactly one HoldingSnapshot appended to all_holdings, so
\* after k ticks len(all_holdings) = k, for any per-symbol buffer lengths,
\* symbols whose buffers end before others included.
C24_OneSnapshotPerTick == OneMarketPerTick /\ OneSnapshotPerTick

\* The same while the first symbol still has a bar at every tick.
SnapshotPerTickOfFirstSymbol ==
    Len(symbols_data[Symbols[1]]) >= bar_index => C24_OneSnapshotPerTick

\* C21: process_signal_event maps a LONG signal to a BUY Order and a SHORT
\* signal to a SELL Order, and maps an EXIT signal on a symbol with a nonzero
\* position to an Order that closes the position (SELL if long, BUY if short).
C21_SignalMapping == LongShortMapping /\ ExitCloses

\* The cached timestamps of the ticker and frequency inside [S, E]
CachedIn(ticker, S, E, frequency) ==
    {row.timestamp : row \in {r \in db : /\ r.ticker = ticker
                                          /\ r.frequency = frequency
                                          /\ r.timestamp >= S
                                          /\ r.timestamp <= E}}

\* The step of a frequency by the second-count table
StepOf(frequency) == parse_interval(frequency).value

\* The grid points of [S, E] at step D
GridPoints(S, E, D) == {S + k * D : k \in 0..((E - S) \div D)}

Within(t, range) == range[1] <= t /\ t <= range[2]

\* The ranges tile [S, E] at step D around the cached timestamps.
Tiles(ranges, cached, S, E, D) ==
    /\ \A i \in DOMAIN ranges : ranges[i][1] <= ranges[i][2]
    /\ \A i, j \in DOMAIN ranges :
          i < j => ranges[i][2] < ranges[j][1] \/ ranges[j][2] < ranges[i][1]
    /\ \A i \in DOMAIN ranges : \A t \in cached : ~Within(t, ranges[i])
    /\ \A g \in GridPoints(S, E, D) :
          (g \in cached) # (\E i \in DOMAIN ranges : Within(g, ranges[i]))

\* C25: for any cached timestamps inside [S, E] of a frequency with step D,
\* the missing ranges returned by _check_exist_data are pairwise disjoint,
\* each has start <= end, none contains a cached timestamp, and together with
\* the cached timestamps they cover every grid point of [S, E] at step D
\* exactly once.
C25_GapTiling ==
    call.op = "check_exist_data" =>
        /\ call.result.ok
        /\ Tiles(call.result.value,
                 CachedIn(call.ticker, call.start_time, call.end_time, call.frequency),
                 call.start_time, call.end_time, StepOf(call.frequency))

\* The request and the cache are on one grid of minutes, hours or days: the
\* end and every cached timestamp are whole steps from the start.
OnOneGrid ==
    /\ call.frequency[Len(call.frequency)] \in {"m", "h", "d"}
    /\ (call.end_time - call.start_time) % StepOf(call.frequency) = 0
    /\ \A t \in CachedIn(call.ticker, call.start_time, call.end_time, call.frequency) :
          (t - call.start_time) % StepOf(call.frequency) = 0

\* The tiling holds for a request and a cache on one grid.
GapTilingOnOneGrid ==
    (call.op = "check_exist_data" /\ OnOneGrid) => C25_GapTiling

\* Such a request was made on a cache that has a gap.
GapTilingOnOneGridReached ==
    /\ call.op = "check_exist_data" /\ OnOneGrid
    /\ call.result.ok
    /\ Len(call.result.value) >= 1
    /\ CachedIn(call.ticker, call.start_time, call.end_time, call.frequency) # {}

RECURSIVE VolumeTotal(_, _, _)
\* The sum of the volumes of bars first..last of a list (a missing volume,
\* NaN, makes the sum NaN).
VolumeTotal(data, first, last) ==
    IF first > last THEN Zero
    ELSE IF \E i \in first..last : data[i].volume = NaN THEN NaN
    ELSE RAdd(data[first].volume, VolumeTotal(data, first + 1, last))

\* Bar `out` is the aggregate of the bars first..last of `data`.
AggregateOf(out, data, first, last) ==
    /\ out.timestamp = data[first].timestamp
    /\ out.open = data[first].open
    /\ out.close = data[last].close
    /\ \E i \in first..last : out.high = data[i].high
    /\ \A i \in first..last : RLe(data[i].high, out.high)
    /\ \E i \in first..last : out.low = data[i].low
    /\ \A i \in first..last : RLe(out.low, data[i].low)
    /\ out.volume = VolumeTotal(data, first, last)

\* C26: _aggregate_data over L bars with group size N returns floor(L / N)
\* bars; the j-th is built from input bars j*N .. j*N+N-1 (timestamp and open
\* of the first, close of the last, max of highs, min of lows, sum of
\* volumes); a trailing group of fewer than N bars contributes nothing.
C26_Aggregation ==
    call.op = "aggregate_data" =>
        /\ Len(call.result) = Len(call.data) \div call.aggregate_count
        /\ \A j \in 1..Len(call.result) :
              AggregateOf(call.result[j], call.data,
                          (j - 1) * call.aggregate_count + 1,
                          j * call.aggregate_count)

\* Groups of several bars were aggregated and a trailing partial group was
\* dropped.
C26_Witness ==
    /\ call.op = "aggregate_data"
    /\ call.aggregate_count >= 2
    /\ Len(call.result) >= 1
    /\ Len(call.data) % call.aggregate_count # 0
    /\ call.result[1].high # call.data[1].high
    /\ call.result[1].volume = R(300)

\* The cache holds at most one row per (ticker, frequency, timestamp).
OneRowPerKey ==
    \A r1, r2 \in db :
        (r1.ticker = r2.ticker /\ r1.frequency = r2.frequency
         /\ r1.timestamp = r2.timestamp) => r1 = r2

\* Every grid point of the requested range is cached, for every ticker.
FullyCached(rows, tickers, S, E, frequency) ==
    \A k \in DOMAIN tickers :
        \A g \in GridPoints(S, E, StepOf(frequency)) :
            \E row \in rows : /\ row.ticker = tickers[k]
                              /\ row.frequency = frequency
                              /\ row.timestamp = g

\* C27: after any sequence of get_historical_data calls with overlapping
\* ranges the cache holds at most one row per (ticker, frequency, timestamp),
\* a stored row is never overwritten or removed by a later store, and a call
\* whose range is already fully cached adds no rows.
C27_IdempotentCache ==
    /\ []OneRowPerKey
    /\ [][db \subseteq db']_vars
    /\ [][(/\ call' # call
           /\ call'.op = "get_historical_data"
           /\ FullyCached(db, call'.tickers, call'.start_ts, call'.end_ts,
                          call'.frequency))
          => db' = db]_vars

\* A second call fetched a bar whose row an earlier call had stored, and
\* stored new rows beside it.
C27_Witness ==
    /\ call.op = "get_historical_data" /\ call.n = 2
    /\ call.frequency = Weekly /\ call.source = "stock" /\ call.down = {}
    /\ \E r1, r2 \in db : /\ r1.created_at = 1 /\ r2.created_at = 2
                          /\ r1.frequency = Weekly /\ r1.ticker = Tickers[1]
                          /\ r1.timestamp < call.start_ts

\* A call was repeated on a range that was fully cached, and added nothing.
RepeatedOnFullCache ==
    /\ call.op = "get_historical_data" /\ call.n = 2
    /\ call.result.ok /\ call.down = {}
    /\ db # {}
    /\ \A row \in db : row.created_at = 1
    /\ FullyCached(db, call.tickers, call.start_ts, call.end_ts, call.frequency)

\* All of open, high, low, close and volume are present and in range.
FullyValid(item) ==
    /\ \A x \in {item.open, item.high, item.low, item.close, item.volume} :
          x # Null /\ x # NaN
    /\ RLt(Zero, item.open) /\ RLt(Zero, item.high)
    /\ RLt(Zero, item.low) /\ RLt(Zero, item.close)
    /\ RLe(Zero, item.volume)
    /\ RLe(item.low, item.open) /\ RLe(item.open, item.high)
    /\ RLe(item.low, item.close) /\ RLe(item.close, item.high)

\* All of open, high, low, close and volume are NULL.
FullyInvalidated(item) ==
    \A x \in {item.open, item.high, item.low, item.close, item.volume} : x = Null

\* The output has the length and the timestamps of the input.
SameBars(data, result) ==
    /\ Len(result) = Len(data)
    /\ \A i \in DOMAIN data : result[i].timestamp = data[i].timestamp

\* C28: every bar returned by _data_preprocessing is either fully valid or
\* fully invalidated (all five of open, high, low, close, volume NULL); no bar
\* is dropped or left partially NULL, and the output has the same length and
\* timestamps as the input.
C28_BarValidation ==
    call.op = "data_preprocessing" =>
        /\ SameBars(call.data, call.result)
        /\ \A i \in DOMAIN call.result :
              FullyValid(call.result[i]) \/ FullyInvalidated(call.result[i])

\* No bar is dropped or moved.
BarsRetained ==
    call.op = "data_preprocessing" => SameBars(call.data, call.result)

\* A bar none of whose values is NaN comes out fully valid or fully
\* invalidated.
BarValidationOfNumbers ==
    call.op = "data_preprocessing" =>
        \A i \in DOMAIN call.result :
            (\A x \in {call.data[i].open, call.data[i].high, call.data[i].low,
                       call.data[i].close, call.data[i].volume} : x # NaN)
            => FullyValid(call.result[i]) \/ FullyInvalidated(call.result[i])

\* The rows of a ticker in a table
RowsOf(rows, ticker) == {row \in rows : row.ticker = ticker}

\* The rows of a ticker and frequency with a timestamp in [S, E]
RowsIn(rows, ticker, S, E, frequency) ==
    {row \in RowsOf(rows, ticker) :
        row.frequency = frequency /\ row.timestamp >= S /\ row.timestamp <= E}

\* A call during which the provider fails for some ticker ends as the claim
\* has it: it returns, nothing is stored for the failing ticker, the other
\* tickers are fetched, and the bars returned are those of the cache.
SurvivesOutage(c, before, after) ==
    /\ c.result.ok
    /\ \A ticker \in c.down : RowsOf(after, ticker) = RowsOf(before, ticker)
    /\ \A k \in DOMAIN c.tickers :
          c.tickers[k] \notin c.down =>
              RowsIn(after, c.tickers[k], c.start_ts, c.end_ts, c.frequency) # {}
    /\ {[ticker |-> b.ticker, timestamp |-> b.timestamp] :
            b \in {c.result.value[i] : i \in DOMAIN c.result.value}}
       = {[ticker |-> row.ticker, timestamp |-> row.timestamp] :
            row \in UNION {RowsIn(after, c.tickers[k], c.start_ts, c.end_ts,
                                  c.frequency) : k \in DOMAIN c.tickers}}

\* A call of get_historical_data during an outage, at a frequency of hours
DuringOutage(c) ==
    /\ c.op = "get_historical_data"
    /\ c.down # {}
    /\ c.frequency \in {Hourly, TwoHourly}

\* C29: when the upstream provider (stock or crypto) raises an error or
\* returns nothing for a missing range, get_historical_data treats the range
\* as empty, stores nothing for it, still processes the remaining ranges and
\* tickers, and returns the bars that are in the cache, without raising.
C29_UpstreamFailure ==
    [][(call' # call /\ DuringOutage(call')) => SurvivesOutage(call', db, db')]_vars

\* The same for the stock provider alone.
StockFailureSurvived ==
    [][(call' # call /\ DuringOutage(call') /\ call'.source = "stock")
       => SurvivesOutage(call', db, db')]_vars

\* The stock provider failed for the first of two tickers, and the bars of
\* the second were fetched and returned.
StockFailureReached ==
    /\ DuringOutage(call) /\ call.source = "stock"
    /\ Len(call.tickers) = 2
    /\ call.result.ok
    /\ RowsOf(db, Tickers[1]) = {}
    /\ Len(call.result.value) >= 2

\* The seconds of the k-th supported interval of a source
SupportedSec(source, k) == parse_interval(supported_intervals(source)[k]).value

\* A call of _get_best_api_interval with a frequency that has a length
BestIntervalCall ==
    /\ call.op = "get_best_api_interval"
    /\ parse_interval(call.target_interval).ok

ServedDirectly == Contains(supported_intervals(call.source), call.target_interval)

\* The k-th supported interval is at most as long as f (shorter, when
\* `strictly`) and divides it.
Divides(source, k, f, strictly) ==
    /\ IF strictly THEN SupportedSec(source, k) < f ELSE SupportedSec(source, k) <= f
    /\ f % SupportedSec(source, k) = 0

\* The call returned f itself, with no aggregation.
ReturnsItself ==
    call.result = Returned(<<call.target_interval, FALSE, 1>>)

\* The call returned the k-th supported interval with count f / g.
ReturnsSupported(k) ==
    /\ call.result.ok
    /\ call.result.value[1] = supported_intervals(call.source)[k]
    /\ call.result.value[2] = TRUE
    /\ call.result.value[3]
         = parse_interval(call.target_interval).value \div SupportedSec(call.source, k)

\* The statement with the smallest supported interval g <= f that divides f.
C30_SmallestInterval ==
    BestIntervalCall =>
        IF ServedDirectly THEN ReturnsItself
        ELSE LET f == parse_interval(call.target_interval).value
                 supported == supported_intervals(call.source)
             IN  \E k \in DOMAIN supported :
                    /\ Divides(call.source, k, f, FALSE)
                    /\ \A j \in DOMAIN supported :
                          Divides(call.source, j, f, FALSE)
                          => SupportedSec(call.source, k) <= SupportedSec(call.source, j)
                    /\ ReturnsSupported(k)

\* C30: for a requested frequency f that the source does not serve directly,
\* _get_best_api_interval returns the last interval g of the source's list of
\* supported intervals with g < f and f mod g = 0, together with aggregate
\* count N = f / g; for a frequency the source serves directly it returns f
\* itself with no aggregation (N = 1).
C30_BestInterval ==
    BestIntervalCall =>
        IF ServedDirectly THEN ReturnsItself
        ELSE LET f == parse_interval(call.target_interval).value
                 supported == supported_intervals(call.source)
             IN  \E k \in DOMAIN supported :
                    /\ Divides(call.source, k, f, TRUE)
                    /\ \A j \in DOMAIN supported :
                          Divides(call.source, j, f, TRUE) => j <= k
                    /\ ReturnsSupported(k)

\* Three hours were asked of the stock source, which serves neither: the
\* answer is three bars of '1h', the last of the list's divisors.
C30_Witness ==
    /\ BestIntervalCall /\ ~ServedDirectly
    /\ call.source = "stock" /\ call.target_interval = <<"3", "h">>
    /\ call.result = Returned(<<Hourly, TRUE, 3>>)

\* In a list in ascending order the last divisor is the longest.
LongestOfCrypto ==
    (BestIntervalCall /\ ~ServedDirectly /\ call.source = "crypto") =>
        \A j \in DOMAIN crypto_intervals :
            Divides("crypto", j, parse_interval(call.target_interval).value, TRUE)
            => SupportedSec("crypto", j) * call.result.value[3]
                   <= parse_interval(call.target_interval).value

\* A symbol has a bar at the cursor.
HasBarAt(symbol, i) == Len(symbols_data[symbol]) > i

\* Each symbol's visible history is a prefix of its buffer.
VisiblePrefix ==
    \A s \in SymbolSet :
        /\ Len(latest_symbols_data[s]) <= Len(symbols_data[s])
        /\ latest_symbols_data[s]
             = SubSeq(symbols_data[s], 1, Len(latest_symbols_data[s]))

\* Each buffer is in the order of its timestamps.
BuffersSorted ==
    \A s \in SymbolSet : \A i, j \in DOMAIN symbols_data[s] :
        i < j => symbols_data[s][i].timestamp < symbols_data[s][j].timestamp

\* A call of update_bars by the engine: true (the loop goes on) iff a symbol
\* has a bar at the cursor; then those symbols get that bar and the cursor
\* moves by one; otherwise nothing changes.
CursorStep ==
    pc = "advance" =>
        /\ (pc' # "done") <=> (\E s \in SymbolSet : HasBarAt(s, bar_index))
        /\ pc' # "done" =>
              /\ bar_index' = bar_index + 1
              /\ \A s \in SymbolSet :
                    latest_symbols_data'[s] =
                        IF HasBarAt(s, bar_index)
                        THEN Append(latest_symbols_data[s],
                                    symbols_data[s][bar_index + 1])
                        ELSE latest_symbols_data[s]
        /\ pc' = "done" => UNCHANGED <<latest_symbols_data, bar_index>>
        /\ UNCHANGED symbols_data

\* C31: update_bars returns true iff at least one symbol has a bar at the
\* current index i; then it appends that bar to the visible history of
\* exactly the symbols that have one and increments i by one; when it returns
\* false it changes nothing; the cursor never decreases and each visible
\* history is always a prefix of the symbol's timestamp-sorted buffer.
C31_Cursor ==
    /\ [](VisiblePrefix /\ BuffersSorted)
    /\ [][CursorStep /\ bar_index' >= bar_index]_vars

\* update_bars has returned true for a tick at which only one of the
\* symbols had a bar, and false at the end of the run.
C31_Witness ==
    /\ pc = "done"
    /\ \E s, t \in SymbolSet :
          /\ Len(latest_symbols_data[s]) < Len(latest_symbols_data[t])
          /\ Len(latest_symbols_data[t]) = bar_index

\* The last N bars of a history
LastN(history, N) == SubSeq(history, Len(history) - N + 1, Len(history))

\* The strict semantics: the last N visible bars, or nothing when fewer than
\* N are visible.
StrictLatestN(symbol, N) ==
    IF Len(latest_symbols_data[symbol]) >= N
    THEN LastN(latest_symbols_data[symbol], N)
    ELSE << >>

\* C32: get_latest_bars(symbol, N) returns exactly the last N bars of the
\* symbol's visible history whenever at least N bars are visible for that
\* symbol, and an empty list otherwise, for any number of symbols and any
\* per-symbol buffer lengths.
C32_LatestN ==
    \A symbol \in SymbolSet : \A N \in 1..(MaxBars + 1) :
        get_latest_bars(symbol, N) = StrictLatestN(symbol, N)

\* The same for the symbols that have a bar at the current tick.
LatestNOfCurrentSymbols ==
    \A symbol \in SymbolSet : \A N \in 1..(MaxBars + 1) :
        Len(latest_symbols_data[symbol]) = bar_index
        => get_latest_bars(symbol, N) = StrictLatestN(symbol, N)

\* Bars of a symbol with a bar at the current tick were asked for, more
\* than one and fewer than are visible.
LatestNOfCurrentSymbolsReached ==
    \E symbol \in SymbolSet :
        /\ Len(latest_symbols_data[symbol]) = bar_index
        /\ bar_index >= 3
        /\ Len(get_latest_bars(symbol, 2)) = 2

\* The rule of the order's symbol
RuleOf(order_event) == registry[order_event.symbol].market_rule

\* What validate_order answers for the order at the bar it is executed at
Validation(order_event) ==
    validate_order(RuleOf(order_event), order_event.symbol, order_event.quantity,
                   BasePriceNow(order_event.symbol), order_event.direction,
                   order_event.datetime)

\* The order passes the checks of lot size and trading hours.
PassesChecks(order_event) ==
    /\ order_event.quantity % RuleOf(order_event).lot_size = 0
    /\ is_trading_time(RuleOf(order_event), order_event.datetime)

\* An order was executed at once under the China A or the HK rule.
ValidatedOrder ==
    /\ call.op = "process_order_event" /\ ~fill_on_next_bar
    /\ HasBarNow(call.event.symbol)
    /\ RuleOf(call.event).market_name \in {"CHINA_A", "HK_STOCK"}

\* For the executed order: validate_order fails, with a reason, iff the order
\* does not pass the checks, and the Fill is rejected iff it fails.
ChecksEnforced ==
    /\ Validation(call.event).ok <=> PassesChecks(call.event)
    /\ ~Validation(call.event).ok => Validation(call.event).msg # ""
    /\ call.result.rejected <=> ~Validation(call.event).ok

\* C33: for the China A and HK rules, validate_order returns a failure (with
\* a reason) for every order, BUY or SELL, whose quantity is not a multiple of
\* lot_size or whose time is outside trading hours, and returns ok only when
\* all of the rule's checks pass.
C33_ValidateOrder == ValidatedOrder => ChecksEnforced

\* The same for every order under the HK rule and every BUY under China A.
ChecksEnforcedButChinaSell ==
    (/\ ValidatedOrder
     /\ ~(RuleOf(call.event).market_name = "CHINA_A" /\ call.event.direction = "SELL"))
    => ChecksEnforced

\* A SELL of round lots outside trading hours was refused under the HK rule.
ChecksEnforcedReached ==
    /\ ValidatedOrder
    /\ RuleOf(call.event).market_name = "HK_STOCK"
    /\ call.event.direction = "SELL"
    /\ call.event.quantity % RuleOf(call.event).lot_size = 0
    /\ call.result.rejected

\* The run has ended: the loop broke, or an exception left it.
RunEnded == pc \in {"done", "crashed"}

\* C34: every time the engine calls update_bars the event queue is empty,
\* and at the end of the run no undispatched event remains: every event
\* enqueued in a tick is dispatched within that same tick.
C34_QueueDrained ==
    (pc = "advance" \/ RunEnded) => event_queue = << >>

\* The same for the calls of update_bars and the runs that end by the
\* loop's break.
QueueDrainedBetweenAdvances ==
    pc \in {"advance", "done"} => event_queue = << >>

\* A tick whose drain dispatched a Fill has ended with the queue empty.
QueueDrainedReached ==
    /\ pc = "advance" /\ bar_index >= 2
    /\ call.op = "process_fill_event"
    /\ event_queue = << >>

\* The length of the longest buffer
LongestBuffer ==
    CHOOSE n \in {Len(symbols_data[s]) : s \in SymbolSet} :
        \A t \in SymbolSet : Len(symbols_data[t]) <= n

\* How many dispatches an event can still cause: a Market event a Signal, a
\* Signal an Order, an Order a Fill, a Fill nothing.
Rank(event) ==
    CASE event.type = "MARKET" -> 4
      [] event.type = "SIGNAL" -> 3
      [] event.type = "ORDER" -> 2
      [] OTHER -> 1

RECURSIVE DrainMeasure(_)
\* The dispatches the queue can still cause
DrainMeasure(queue) ==
    IF queue = << >> THEN 0 ELSE Rank(Head(queue)) + DrainMeasure(Tail(queue))

\* Every dispatch of the drain lowers the measure: the drain is finite.
DrainDecreases ==
    pc = "drain" => DrainMeasure(event_queue') < DrainMeasure(event_queue)

\* a is before b in the lexicographic order of triples of naturals.
LexLess(a, b) ==
    \/ a[1] < b[1]
    \/ a[1] = b[1] /\ a[2] < b[2]
    \/ a[1] = b[1] /\ a[2] = b[2] /\ a[3] < b[3]

\* What is left of the run: whether it goes on, the ticks to come, and the
\* dispatches the queue can still cause.
Variant(ended, index, queue) ==
    <<IF ended THEN 0 ELSE 1, LongestBuffer - index, DrainMeasure(queue)>>

\* Every step of the engine lowers the variant, which is bounded below: the
\* run cannot go on for ever.
VariantDecreases ==
    LexLess(Variant(pc' \in {"done", "crashed"}, bar_index', event_queue'),
            Variant(pc \in {"done", "crashed"}, bar_index, event_queue))

\* A run ends by the loop's break after one tick per bar of the longest
\* buffer.
EndsAfterLongest == RunEnded => (pc = "done" /\ bar_index = LongestBuffer)

\* C35: for any finite bar buffers the engine's run terminates: the outer
\* loop performs exactly max-over-symbols(buffer length) ticks and then stops,
\* and each inner drain dispatches finitely many events because a Market
\* event yields at most one Signal, a Signal at most one Order, an Order at
\* most one Fill, and a Fill yields no event.
C35_Termination ==
    /\ []EndsAfterLongest
    /\ [][VariantDecreases /\ DrainDecreases]_vars

\* Every run is finite, each drain is finite, and a run that ends by the
\* loop's break has performed one tick per bar of the longest buffer.
RunEnds ==
    /\ [](pc = "done" => bar_index = LongestBuffer)
    /\ [][VariantDecreases /\ DrainDecreases]_vars

\* A run over buffers of unequal lengths has ended by the loop's break.
RunEndsReached ==
    /\ pc = "done"
    /\ \E s \in SymbolSet : Len(symbols_data[s]) < LongestBuffer
    /\ portfolio.positions # << >>

\* The symbols whose market rule forbids short selling.
NoShortSymbols ==
    {s \in DOMAIN registry : ~registry[s].market_rule.allow_short}

\* The holding quantity of a symbol, 0 without a holding record.
QuantityHeld(pf, symbol) ==
    IF symbol \in DOMAIN pf.current_holdings
    THEN pf.current_holdings[symbol].quantity ELSE 0

\* C36: short-selling permission is enforced end to end: for an instrument
\* whose market rule has allow_short = false (China A), no sequence of
\* signals, orders and fills through Portfolio.process_signal_event,
\* ExecutionHandler and Portfolio.process_fill_event ever makes the holding
\* quantity negative.
C36_NoShortHolding ==
    \A s \in NoShortSymbols : QuantityHeld(portfolio, s) >= 0

\* Once a holding record of such a symbol exists with a quantity that is not
\* negative, no step makes it negative: the availability check of the signal
\* conversion refuses the sale of more than is held.
NoShortOnceHeld ==
    [][\A s \in NoShortSymbols :
         (s \in DOMAIN portfolio.current_holdings
          /\ QuantityHeld(portfolio, s) >= 0) =>
             QuantityHeld(portfolio', s) >= 0]_vars

\* A holding of a symbol that cannot be sold short was reduced by a sale.
NoShortOnceHeldReached ==
    /\ call.op = "process_fill_event"
    /\ \E s \in NoShortSymbols :
         /\ s \in DOMAIN portfolio.current_holdings
         /\ portfolio.current_holdings[s].quantity = 0
         /\ portfolio.positions # << >>

\* The margin held for a symbol, 0 without an entry in margin_used.
MarginHeld(pf, symbol) == DictGet(pf.margin_used, symbol, Zero)

\* The margin ledger of one symbol is sound: never negative, and empty when
\* nothing of the symbol is held.
MarginSound(pf, symbol) ==
    /\ MarginHeld(pf, symbol)[1] >= 0
    /\ QuantityHeld(pf, symbol) = 0 => MarginHeld(pf, symbol) = Zero

\* C37: after every fill processed by the registry-based Portfolio,
\* margin_used[symbol] >= 0 for every symbol, and margin_used[symbol] = 0
\* whenever the symbol's quantity is 0 (a full close or flip releases exactly
\* the margin held, never more).
C37_MarginLedger ==
    \A s \in SymbolSet : MarginSound(portfolio, s)

\* A sale out of a long position, of no more than is held, keeps the ledger
\* of the symbol sound, and a full close empties it.
MarginSoundOnLongSale ==
    [][AcceptedFillStep =>
        LET fill_event == call'.event
            symbol == fill_event.symbol
            q == QuantityHeld(portfolio, symbol)
        IN  (/\ fill_event.direction = "SELL"
             /\ q > 0 /\ fill_event.quantity <= q
             /\ MarginSound(portfolio, symbol)) =>
                MarginSound(portfolio', symbol)]_vars

\* A long position was closed in full by a sale and its margin released.
MarginSoundOnLongSaleReached ==
    /\ call.op = "process_fill_event"
    /\ ~call.event.rejected
    /\ call.event.direction = "SELL"
    /\ Len(portfolio.positions) = 2
    /\ portfolio.positions[1].direction = "BUY"
    /\ portfolio.positions[1].symbol = call.event.symbol
    /\ QuantityHeld(portfolio, call.event.symbol) = 0
    /\ call.event.symbol \in DOMAIN portfolio.margin_used

\* Every instrument of the registry is a cash instrument: none is settled
\* daily.
CashInstruments ==
    \A s \in DOMAIN registry : ~registry[s].market_rule.requires_daily_settlement

\* C38: in next-bar mode, for any bar sequence and any sequence of signals on
\* cash-equity instruments (no daily settlement), current_cash >= 0 holds
\* after every fill, even though the cash check at signal conversion uses the
\* tick-T close while the fill at tick T+1 debits margin at the adjusted
\* tick-T+1 open plus commission.
C38_CashNotNegative ==
    (fill_on_next_bar /\ CashInstruments) => portfolio.current_cash[1] >= 0

\* The snapshot update_timeindex has just appended.
LastSnapshot(pf) == pf.all_holdings[Len(pf.all_holdings)]

\* The symbols a snapshot values: those held, with a latest bar.
ValuedSymbols(pf, latest, index) ==
    {s \in SymbolSet : /\ QuantityHeld(pf, s) # 0
                       /\ get_latest_bar_in(latest, index, s) # None}

\* quantity * close * multiplier of a held symbol
MarketValueOf(pf, latest, index, symbol) ==
    RMul(RMul(R(QuantityHeld(pf, symbol)),
              get_latest_bar_in(latest, index, symbol).close),
         R(registry[symbol].contract_multiplier))

\* What one update_timeindex appends.
SnapshotStep ==
    (call' # call /\ call'.op = "update_timeindex") =>
        LET snapshot == LastSnapshot(portfolio')
            valued == ValuedSymbols(portfolio', latest_symbols_data', bar_index')
        IN  /\ Len(portfolio'.all_holdings) = Len(portfolio.all_holdings) + 1
            /\ snapshot.cash = portfolio'.current_cash
            /\ DOMAIN snapshot.value = valued
            /\ \A s \in valued :
                  snapshot.value[s]
                     = MarketValueOf(portfolio', latest_symbols_data', bar_index', s)
            /\ snapshot.total = RAdd(snapshot.cash, RSum(snapshot.value, valued))

\* C39: every HoldingSnapshot appended by Portfolio.update_timeindex has
\* snapshot.cash = the portfolio's current_cash at the moment it is appended,
\* and snapshot.total = snapshot.cash + the sum of the snapshot's per-symbol
\* market values (quantity * close * multiplier over symbols with nonzero
\* quantity and a latest bar), including for daily-settled instruments.
C39_SnapshotConsistency == [][SnapshotStep]_vars

\* A snapshot was appended while a daily-settled position was marked to
\* market with a gain or a loss, so that the cash moved during the call.
C39_Witness ==
    /\ call.op = "update_timeindex"
    /\ Len(portfolio.all_holdings) >= 2
    /\ \E s \in SymbolSet :
          /\ registry[s].market_rule.requires_daily_settlement
          /\ s \in DOMAIN LastSnapshot(portfolio).value
    /\ LastSnapshot(portfolio).cash
          # portfolio.all_holdings[Len(portfolio.all_holdings) - 1].cash
    /\ portfolio.positions # << >>
    /\ portfolio.positions[Len(portfolio.positions)].time
          < portfolio.all_holdings[Len(portfolio.all_holdings) - 1].time

\* The Fill's rejection is the market rule's verdict on the order and nothing
\* else.
RejectedByRuleOnly(order_event, fill_event) ==
    fill_event.rejected <=> RuleFails(order_event)

\* Every Fill the execution handler has just returned is accepted or rejected
\* by the rule alone.
NoDraw ==
    /\ (call.op = "process_order_event" /\ call.result # None) =>
          RejectedByRuleOnly(call.event, call.result)
    /\ call.op = "update_bars" =>
          LET executed == ExecutedOrders(call.orders)
          IN  /\ Len(call.fills) = Len(executed)
              /\ \A i \in DOMAIN executed :
                    RejectedByRuleOnly(executed[i], call.fills[i])

\* What a step hands on is the value of its handler on the state before the
\* step and the event dispatched: the Fills of the pending orders, the
\* positions record of a Fill, the snapshot of a Market event.
DeterminedStep ==
    /\ (call' # call /\ call'.op = "update_bars") =>
          /\ call'.fills = execute_all(latest_symbols_data', bar_index',
                                       pending_orders)
          /\ portfolio' = portfolio
    /\ (call' # call /\ call'.op = "process_order_event") =>
          /\ call'.event = Head(event_queue)
          /\ call'.result = process_order_event(fill_on_next_bar, pending_orders,
                                                call'.event).result
          /\ portfolio' = portfolio
    /\ (call' # call /\ call'.op = "process_fill_event") =>
          /\ call'.event = Head(event_queue)
          /\ portfolio' = process_fill_event(portfolio, call'.event)
    /\ (call' # call /\ call'.op = "update_timeindex") =>
          /\ call'.event = Head(event_queue)
          /\ portfolio' = update_timeindex(portfolio, call'.event,
                                           latest_symbols_data, bar_index)
    /\ (call' # call /\ call'.op = "process_signal_event") =>
          /\ call'.event = Head(event_queue)
          /\ portfolio' = portfolio
          /\ pc' # "crashed" =>
                call'.result = process_signal_event(portfolio, call'.event,
                                  get_latest_bar(call'.event.symbol))

====
